---- MODULE Spec2Model ----
(***************************************************************************)
(* Verification model of the grid provider's deployment and network        *)
(* resources (internal/provider/resource_deployment.go and                 *)
(* internal/provider/resource_network.go).                                 *)
(*                                                                         *)
(* The module holds one group of variables per component and one           *)
(* specification per component; a specification leaves the variables of    *)
(* the other components at their idle values.                              *)
(*   SpecWait   : waitDeployment, the completion polling loop              *)
(*   SpecDiff   : diskHasChanged, zdbHasChanged, vmHasChanged              *)
(*   SpecIP     : getFreeIP under the allocation loop of create            *)
(*   SpecDeploy : resourceDeploymentCreate / resourceDeploymentUpdate runs *)
(*   SpecGen    : NetworkConfiguration.generateDeployments                 *)
(*   SpecNet    : resourceNetworkCreate / resourceNetworkUpdate runs       *)
(*   SpecNetCalls : the network runs step by step, remote calls failing    *)
(*   SpecPort   : getNodeFreeWGPort                                        *)
(*   SpecRace   : runs that allocate a port on the same node               *)
(*   SpecRuns   : the runs of either resource, step by step                *)
(***************************************************************************)
EXTENDS Integers, Sequences, FiniteSets, TLC

VARIABLES
    \* ---- waitDeployment ----
    wpc,        \* position of the call: "idle", "loop", "done"
    wctx,       \* [caller, id]: who passed ctx, and the deploymentID argument
    elapsed,    \* seconds since `start` (time.Since(start))
    remote,     \* the node agent's workload results, one [state, error] per workload
    fetched,    \* dl.Workloads of the last successful DeploymentGet
    werr,       \* the value returned by waitDeployment
    \* ---- the HasChanged functions ----
    dkind,      \* "disk", "zdb" or "vm"
    declared,   \* the declared resource (first argument)
    oldList,    \* the prior list (second argument)
    dres,       \* <<>> before the call, then <<[changed, old]>>
    \* ---- getFreeIP ----
    ipRange,    \* the ipRange argument
    usedIPs,    \* the usedIPs slice, grown by each result
    freeIP,     \* <<>> before the first call, then <<[ip, err]>> of the last call
    \* ---- deployment create / update runs ----
    d,          \* the schema.ResourceData of the deployment resource
    manifest,   \* the gridtypes.Deployment built by the last run
    lastRun,    \* [op, err, calls, steps] of the last run
    runs,       \* number of runs so far
    failures,   \* number of failed runs so far
    \* ---- generateDeployments ----
    nc,         \* the NetworkConfiguration receiver
    deploymentInfo, \* <<>> before the call, then <<DeploymentInformation>>
    \* ---- network create / update runs ----
    nd,         \* the schema.ResourceData of the network resource
    netConfig,  \* the networkConfig of the last run
    netCalls,   \* the remote calls of the last run, in order
    netRun,     \* [op, err] of the last run
    netRuns,    \* number of runs so far
    netKeys,    \* number of the last wgtypes key drawn
    netContracts, \* the last contract id the ledger gave out
    netFaults,  \* the remote calls that have failed so far
    \* ---- getNodeFreeWGPort ----
    ppc,        \* "idle", "loop", "returned" or "panicked"
    freeports,  \* the reserved ports NetworkListWGPorts gave
    port,       \* p
    \* ---- runs that call getNodeFreeWGPort for the same node ----
    runPc,      \* per run: "idle", "loop", "chosen" or "deployed"
    runFreeports, \* per run: the reserved ports the run was given
    runPort,    \* per run: p
    nodePorts   \* the ports the node has reserved

waitVars   == <<wpc, wctx, elapsed, remote, fetched, werr>>
diffVars   == <<dkind, declared, oldList, dres>>
ipVars     == <<ipRange, usedIPs, freeIP>>
deployVars == <<d, manifest, lastRun, runs, failures>>
genVars    == <<nc, deploymentInfo>>
netVars    == <<nd, netConfig, netCalls, netRun, netRuns, netKeys, netContracts, netFaults>>
portVars   == <<ppc, freeports, port>>
raceVars   == <<runPc, runFreeports, runPort, nodePorts>>
vars       == <<waitVars, diffVars, ipVars, deployVars, genVars, netVars, portVars, raceVars>>

\* The variables an action of one component leaves alone.
notWait   == <<diffVars, ipVars, deployVars, genVars, netVars, portVars, raceVars>>
notDiff   == <<waitVars, ipVars, deployVars, genVars, netVars, portVars, raceVars>>
notIP     == <<waitVars, diffVars, deployVars, genVars, netVars, portVars, raceVars>>
notDeploy == <<waitVars, diffVars, ipVars, genVars, netVars, portVars, raceVars>>
notGen    == <<waitVars, diffVars, ipVars, deployVars, netVars, portVars, raceVars>>
notNet    == <<waitVars, diffVars, ipVars, deployVars, genVars, portVars, raceVars>>
notPort   == <<waitVars, diffVars, ipVars, deployVars, genVars, netVars, raceVars>>
notRace   == <<waitVars, diffVars, ipVars, deployVars, genVars, netVars, portVars>>

Range(s) == {s[i] : i \in DOMAIN s}

(***************************************************************************)
(* Bounds of the model                                                     *)
(***************************************************************************)
MaxWorkloads == 3       \* workloads in the polled deployment
FetchStep    == 10      \* a DeploymentGet round trip takes 1 or 2 steps (seconds)

(***************************************************************************)
(* waitDeployment                                                          *)
(***************************************************************************)
WaitBudget == 240       \* 4*time.Minute, in seconds
CtxTimeout == 30        \* context.WithTimeout(..., 30*time.Second)
StateOk    == "ok"      \* gridtypes.StateOk

\* The contexts waitDeployment is called with: create and update pass the
\* 30-second context they made before the ledger call; "background" is a
\* context without a deadline.
Callers == {"create", "update", "background"}
HasDeadline(ctx) == ctx.caller \in {"create", "update"}

DeploymentIDs == {7, 8}
ErrorTexts == {"e1", "e2"}
\* Result states a workload can end in (gridtypes: ok, error, deleted).
FailedStates == {"error", "deleted"}

Pending == [state |-> "", error |-> ""]

NoErr == [kind |-> "none", idx |-> 0, id |-> 0, text |-> ""]
\* return nil
Nil == [kind |-> "nil", idx |-> 0, id |-> 0, text |-> ""]
\* errors.New(fmt.Sprintf("workload %d failed within deployment %d with error %s", ...))
WorkloadFailed(idx, id, text) ==
    [kind |-> "workload_failed", idx |-> idx, id |-> id, text |-> text]
\* errors.New(fmt.Sprintf("waiting for deployment %d timedout", deploymentID))
TimedOut(id) == [kind |-> "timedout", idx |-> 0, id |-> id, text |-> ""]
\* return err, the error of DeploymentGet handed on unchanged
FetchError(text) == [kind |-> "fetch_error", idx |-> 0, id |-> 0, text |-> text]

\* A mutation of the scan: a pending workload does not reset `done`.
RECURSIVE ScanFromKeepDone(_, _, _)
ScanFromKeepDone(wls, i, done) ==
    IF i > Len(wls) THEN [failed |-> FALSE, idx |-> 0, done |-> done]
    ELSE IF wls[i].state = "" THEN ScanFromKeepDone(wls, i + 1, done)
    ELSE IF wls[i].state # StateOk THEN [failed |-> TRUE, idx |-> i - 1, done |-> done]
    ELSE ScanFromKeepDone(wls, i + 1, done)

\* A mutation of the scan: a pending workload ends the scan (break for continue).
RECURSIVE ScanFromBreak(_, _, _)
ScanFromBreak(wls, i, done) ==
    IF i > Len(wls) THEN [failed |-> FALSE, idx |-> 0, done |-> done]
    ELSE IF wls[i].state = "" THEN [failed |-> FALSE, idx |-> 0, done |-> FALSE]
    ELSE IF wls[i].state # StateOk THEN [failed |-> TRUE, idx |-> i - 1, done |-> done]
    ELSE ScanFromBreak(wls, i + 1, done)

\* for idx, wl := range dl.Workloads { ... }: the scan from position i (1-based
\* here, idx = i - 1 in the code) with the current value of `done`.
RECURSIVE ScanFrom(_, _, _)
ScanFrom(wls, i, done) ==
    IF i > Len(wls) THEN [failed |-> FALSE, idx |-> 0, done |-> done]
    ELSE IF wls[i].state = "" THEN ScanFrom(wls, i + 1, FALSE)
    ELSE IF wls[i].state # StateOk THEN [failed |-> TRUE, idx |-> i - 1, done |-> done]
    ELSE ScanFrom(wls, i + 1, done)

\* done = true; then the scan of the fetched workloads.
ScanWorkloads(wls) == ScanFrom(wls, 1, TRUE)

WaitIdle ==
    /\ wpc = "idle"
    /\ wctx = [caller |-> "background", id |-> 0]
    /\ elapsed = 0
    /\ remote = <<>>
    /\ fetched = <<>>
    /\ werr = NoErr

WaitInit ==
    /\ wpc = "idle"
    /\ wctx = [caller |-> "background", id |-> 0]
    /\ elapsed = 0
    /\ \E n \in 1..MaxWorkloads : remote = [i \in 1..n |-> Pending]
    /\ fetched = <<>>
    /\ werr = NoErr

\* The node agent finishes a workload: its result state leaves "".
AgentProgress ==
    /\ wpc # "done"
    /\ \E i \in DOMAIN remote :
         /\ remote[i].state = ""
         /\ \/ remote' = [remote EXCEPT ![i] = [state |-> StateOk, error |-> ""]]
            \/ \E s \in FailedStates, t \in ErrorTexts :
                 remote' = [remote EXCEPT ![i] = [state |-> s, error |-> t]]
    /\ UNCHANGED <<wpc, wctx, elapsed, fetched, werr>>
    /\ UNCHANGED notWait

\* waitDeployment(ctx, nodeClient, deploymentID) is entered: start := time.Now().
WaitStart ==
    /\ wpc = "idle"
    /\ \E c \in Callers, id \in DeploymentIDs : wctx' = [caller |-> c, id |-> id]
    /\ wpc' = "loop"
    /\ elapsed' = 0
    /\ UNCHANGED <<remote, fetched, werr>>
    /\ UNCHANGED notWait

\* The loop condition time.Since(start) < 4*time.Minute.
InLoop == wpc = "loop" /\ elapsed < WaitBudget

\* The instant a DeploymentGet issued now returns.
FetchTimes == {elapsed + FetchStep, elapsed + 2 * FetchStep}
\* ctx is done before the reply is in: the call returns ctx.Err().
Expired(t) == HasDeadline(wctx) /\ t > CtxTimeout

\* DeploymentGet fails because ctx ran out; waitDeployment returns that error.
WaitFetchDeadline ==
    /\ InLoop
    /\ \E t \in FetchTimes :
         /\ Expired(t)
         /\ elapsed' = IF elapsed > CtxTimeout THEN elapsed ELSE CtxTimeout
    /\ wpc' = "done"
    /\ werr' = FetchError("context deadline exceeded")
    /\ UNCHANGED <<wctx, remote, fetched>>
    /\ UNCHANGED notWait

\* DeploymentGet fails in transport; waitDeployment returns that error.
WaitFetchError ==
    /\ InLoop
    /\ \E t \in FetchTimes :
         /\ ~Expired(t)
         /\ elapsed' = t
    /\ wpc' = "done"
    /\ werr' = FetchError("transport")
    /\ UNCHANGED <<wctx, remote, fetched>>
    /\ UNCHANGED notWait

\* One iteration whose fetch shows a failed workload: return the error.
WaitWorkloadFailed ==
    /\ InLoop
    /\ \E t \in FetchTimes :
         /\ ~Expired(t)
         /\ elapsed' = t
    /\ ScanWorkloads(remote).failed
    /\ fetched' = remote
    /\ wpc' = "done"
    /\ werr' = WorkloadFailed(ScanWorkloads(remote).idx, wctx.id,
                              remote[ScanWorkloads(remote).idx + 1].error)
    /\ UNCHANGED <<wctx, remote>>
    /\ UNCHANGED notWait

\* One iteration whose scan ends with done = true: return nil.
WaitDone ==
    /\ InLoop
    /\ \E t \in FetchTimes :
         /\ ~Expired(t)
         /\ elapsed' = t
    /\ ~ScanWorkloads(remote).failed
    /\ ScanWorkloads(remote).done
    /\ fetched' = remote
    /\ wpc' = "done"
    /\ werr' = Nil
    /\ UNCHANGED <<wctx, remote>>
    /\ UNCHANGED notWait

\* One iteration whose scan ends with done = false: loop again, at once.
WaitPending ==
    /\ InLoop
    /\ \E t \in FetchTimes :
         /\ ~Expired(t)
         /\ elapsed' = t
    /\ ~ScanWorkloads(remote).failed
    /\ ~ScanWorkloads(remote).done
    /\ fetched' = remote
    /\ UNCHANGED <<wpc, wctx, remote, werr>>
    /\ UNCHANGED notWait

\* The loop condition fails: the budget is spent.
WaitTimedOut ==
    /\ wpc = "loop"
    /\ ~(elapsed < WaitBudget)
    /\ wpc' = "done"
    /\ werr' = TimedOut(wctx.id)
    /\ UNCHANGED <<wctx, elapsed, remote, fetched>>
    /\ UNCHANGED notWait

WaitNext ==
    \/ AgentProgress
    \/ WaitStart
    \/ WaitFetchDeadline
    \/ WaitFetchError
    \/ WaitWorkloadFailed
    \/ WaitDone
    \/ WaitPending
    \/ WaitTimedOut

(***************************************************************************)
(* diskHasChanged, zdbHasChanged, vmHasChanged                             *)
(***************************************************************************)
MaxOld == 2             \* length of the prior list handed to a HasChanged function

\* reflect.DeepEqual on two []interface{} of map[string]interface{} with
\* string values: equal length and element-wise equal maps.
DeepEqual(a, b) ==
    /\ Len(a) = Len(b)
    /\ \A i \in DOMAIN a : a[i] = b[i]

\* The result pair (bool, map[string]interface{}); a nil map is <<>>.
HasChangedResult(changed, old) == [changed |-> changed, old |-> old]

\* A mutation of diskHasChanged: the size comparison is missing.
RECURSIVE diskHasChangedNoSize(_, _)
diskHasChangedNoSize(disk, oldDisks) ==
    IF oldDisks = <<>> THEN HasChangedResult(FALSE, <<>>)
    ELSE LET diskData == Head(oldDisks) IN
         IF diskData.name = disk.name
         THEN IF diskData.description # disk.description
              THEN HasChangedResult(TRUE, <<diskData>>)
              ELSE HasChangedResult(FALSE, <<diskData>>)
         ELSE diskHasChangedNoSize(disk, Tail(oldDisks))

RECURSIVE diskHasChanged(_, _)
diskHasChanged(disk, oldDisks) ==
    IF oldDisks = <<>> THEN HasChangedResult(FALSE, <<>>)
    ELSE LET diskData == Head(oldDisks) IN
         IF diskData.name = disk.name
         THEN IF diskData.description # disk.description \/ diskData.size # disk.size
              THEN HasChangedResult(TRUE, <<diskData>>)
              ELSE HasChangedResult(FALSE, <<diskData>>)
         ELSE diskHasChanged(disk, Tail(oldDisks))

RECURSIVE zdbHasChanged(_, _)
zdbHasChanged(zdb, oldZdbs) ==
    IF oldZdbs = <<>> THEN HasChangedResult(FALSE, <<>>)
    ELSE LET zdbData == Head(oldZdbs) IN
         IF zdbData.name = zdb.name
         THEN IF \/ zdbData.password # zdb.password
                 \/ zdbData.size # zdb.size
                 \/ zdbData.description # zdb.description
                 \/ zdbData.mode # zdb.mode
              THEN HasChangedResult(TRUE, <<zdbData>>)
              ELSE HasChangedResult(FALSE, <<zdbData>>)
         ELSE zdbHasChanged(zdb, Tail(oldZdbs))

\* The condition of line 592 as written: the two reflect.DeepEqual calls are
\* not negated.
RECURSIVE vmHasChanged(_, _)
vmHasChanged(vm, oldVms) ==
    IF oldVms = <<>> THEN HasChangedResult(FALSE, <<>>)
    ELSE LET vmData == Head(oldVms) IN
         IF vmData.name = vm.name /\ vmData.flist = vm.flist
         THEN IF \/ vmData.cpu # vm.cpu
                 \/ vmData.memory # vm.memory
                 \/ vmData.entrypoint # vm.entrypoint
                 \/ DeepEqual(vmData.mounts, vm.mounts)
                 \/ DeepEqual(vmData.env_vars, vm.env_vars)
              THEN HasChangedResult(TRUE, <<vmData>>)
              ELSE HasChangedResult(FALSE, <<vmData>>)
         ELSE vmHasChanged(vm, Tail(oldVms))

\* ---- the inputs of SpecDiff ----
Disk(n, s, ds, v) == [name |-> n, size |-> s, description |-> ds, version |-> v]
Zdb(n, p, s, ds, m, v) ==
    [name |-> n, password |-> p, size |-> s, description |-> ds, mode |-> m,
     version |-> v]
Vm(n, f, c, mem, e, mnt, env, v, ip) ==
    [name |-> n, flist |-> f, cpu |-> c, memory |-> mem, entrypoint |-> e,
     mounts |-> mnt, env_vars |-> env, version |-> v, ip |-> ip]

Mount(dn, mp) == [disk_name |-> dn, mount_point |-> mp]
EnvVar(k, v) == [key |-> k, value |-> v]

DiskNames == {"d1", "d2"}
ZdbNames  == {"z1", "z2"}
VmNames   == {"web1", "web2"}
FLists    == {"flist1", "flist2"}
MountLists == {<<>>, <<Mount("d1", "/data")>>}
EnvLists   == {<<>>, <<EnvVar("K", "v")>>}

AllDisks ==
    {Disk(n, s, ds, v) : n \in DiskNames, s \in {1, 2}, ds \in {"x", "y"}, v \in {0, 1}}

AllZdbs ==
    {Zdb(n, p, s, ds, m, 0) :
        n \in ZdbNames, p \in {"pw1", "pw2"}, s \in {1, 2}, ds \in {"x", "y"},
        m \in {"seq", "user"}}

\* Prior storage nodes: the base record, each single tracked field changed,
\* and all of them changed, under either name.
OldZdbs ==
    {Zdb(n, "pw1", 1, "x", "seq", v) : n \in ZdbNames, v \in {0, 1}}
    \cup {Zdb(n, "pw2", 1, "x", "seq", 1) : n \in ZdbNames}
    \cup {Zdb(n, "pw1", 2, "x", "seq", 1) : n \in ZdbNames}
    \cup {Zdb(n, "pw1", 1, "y", "seq", 1) : n \in ZdbNames}
    \cup {Zdb(n, "pw1", 1, "x", "user", 1) : n \in ZdbNames}
    \cup {Zdb(n, "pw2", 2, "y", "user", 1) : n \in ZdbNames}

\* Declared machines: every name, flist, mount list and env list.
DeclaredVms ==
    {Vm(n, f, 1, 1024, "/sbin/init", mnt, env, 0, "") :
        n \in VmNames, f \in FLists, mnt \in MountLists, env \in EnvLists}

\* Prior machines: the base record, each single tracked field changed, and
\* all of them changed, under either name and flist.
OldVms ==
    {Vm(n, f, 1, 1024, "/sbin/init", <<>>, <<>>, 0, "") : n \in VmNames, f \in FLists}
    \cup {Vm(n, f, 2, 1024, "/sbin/init", <<>>, <<>>, 1, "") : n \in VmNames, f \in FLists}
    \cup {Vm(n, f, 1, 2048, "/sbin/init", <<>>, <<>>, 1, "") : n \in VmNames, f \in FLists}
    \cup {Vm(n, f, 1, 1024, "/bin/sh", <<>>, <<>>, 1, "") : n \in VmNames, f \in FLists}
    \cup {Vm(n, f, 1, 1024, "/sbin/init", <<Mount("d1", "/data")>>, <<>>, 1, "") :
             n \in VmNames, f \in FLists}
    \cup {Vm(n, f, 1, 1024, "/sbin/init", <<>>, <<EnvVar("K", "v")>>, 1, "") :
             n \in VmNames, f \in FLists}
    \cup {Vm(n, f, 2, 2048, "/bin/sh", <<Mount("d1", "/data")>>, <<EnvVar("K", "v")>>, 1, "") :
             n \in VmNames, f \in FLists}

\* Sequences over S of length at most n.
SeqUpTo(S, n) == UNION {[1..k -> S] : k \in 0..n}

DiffIdle ==
    /\ dkind = "none"
    /\ declared = <<>>
    /\ oldList = <<>>
    /\ dres = <<>>

DiffInit ==
    /\ dres = <<>>
    /\ \/ /\ dkind = "disk"
          /\ declared \in {r \in AllDisks : r.version = 0}
          /\ oldList \in SeqUpTo(AllDisks, MaxOld)
       \/ /\ dkind = "zdb"
          /\ declared \in AllZdbs
          /\ oldList \in SeqUpTo(OldZdbs, MaxOld)
       \/ /\ dkind = "vm"
          /\ declared \in DeclaredVms
          /\ oldList \in SeqUpTo(OldVms, MaxOld)

CallDiskHasChanged ==
    /\ dkind = "disk" /\ dres = <<>>
    /\ dres' = <<diskHasChanged(declared, oldList)>>
    /\ UNCHANGED <<dkind, declared, oldList>>
    /\ UNCHANGED notDiff

CallZdbHasChanged ==
    /\ dkind = "zdb" /\ dres = <<>>
    /\ dres' = <<zdbHasChanged(declared, oldList)>>
    /\ UNCHANGED <<dkind, declared, oldList>>
    /\ UNCHANGED notDiff

CallVmHasChanged ==
    /\ dkind = "vm" /\ dres = <<>>
    /\ dres' = <<vmHasChanged(declared, oldList)>>
    /\ UNCHANGED <<dkind, declared, oldList>>
    /\ UNCHANGED notDiff

DiffNext ==
    \/ CallDiskHasChanged
    \/ CallZdbHasChanged
    \/ CallVmHasChanged

(***************************************************************************)
(* getFreeIP                                                               *)
(***************************************************************************)
FirstHost == 2          \* i := 2
HostLimit == 255        \* for i < 255

\* ipNet(a, b, c, d, msk): the four octets and the mask length.
ipNet(a, b, c, dd, msk) == [ip |-> <<a, b, c, dd>>, mask |-> msk]

\* byte(i): the conversion keeps the low 8 bits.
Byte(i) == i % 256

\* fmt.Sprintf("%d.%d.%d.%d", ...)
DottedQuad(ip) ==
    ToString(ip[1]) \o "." \o ToString(ip[2]) \o "." \o ToString(ip[3]) \o "."
        \o ToString(ip[4])

\* isInStr(l, s): whether the string is an element of the slice.
isInStr(l, s) == \E k \in DOMAIN l : l[k] = s

\* The address tried for host id i: ipNet(..., byte(i), 32), then Sprintf.
HostAddress(rng, i) == DottedQuad(ipNet(rng.ip[1], rng.ip[2], rng.ip[3], Byte(i), 32).ip)

\* The value of i when the loop over lo..hi stops: the lowest host id whose
\* address is not in the used list, hi + 1 when there is none.  The range is
\* halved so that the ids are tried in ascending order, stopping at the first
\* free one, without nesting one evaluation per id.
RECURSIVE FirstFree(_, _, _, _)
FirstFree(rng, used, lo, hi) ==
    IF lo > hi THEN hi + 1
    ELSE IF lo = hi
    THEN IF ~isInStr(used, HostAddress(rng, lo)) THEN lo ELSE hi + 1
    ELSE LET mid == (lo + hi) \div 2
             low == FirstFree(rng, used, lo, mid)
         IN  IF low <= mid THEN low ELSE FirstFree(rng, used, mid + 1, hi)

\* The loop of getFreeIP started at host id `first`.  The result pair is
\* (string, error); a nil error is "".
ScanHosts(rng, used, first) ==
    LET i == FirstFree(rng, used, first, HostLimit - 1)
    IN  IF i < HostLimit
        THEN [ip |-> HostAddress(rng, i), err |-> ""]
        ELSE [ip |-> "", err |-> "all ips are used"]

\* A mutation of getFreeIP: the scan starts at host id 1.
getFreeIPFromGateway(rng, used) == ScanHosts(rng, used, 1)

getFreeIP(rng, used) == ScanHosts(rng, used, FirstHost)

\* ---- the inputs of SpecIP ----
IPRanges == {ipNet(10, 1, 1, 0, 24), ipNet(10, 1, 2, 0, 24)}

\* The used list the allocation starts from.
InitialUsed ==
    { <<>>,
      <<"10.1.1.4", "10.1.1.2">>,
      <<"10.1.1.1", "10.1.1.255", "10.1.1.0", "10.1.2.2", "10.1.1.254">> }

IPIdle ==
    /\ ipRange = ipNet(0, 0, 0, 0, 0)
    /\ usedIPs = <<>>
    /\ freeIP = <<>>

IPInit ==
    /\ ipRange \in IPRanges
    /\ usedIPs \in InitialUsed
    /\ freeIP = <<>>

\* The last call did not fail (the allocation loop has not returned).
Allocating == IF freeIP = <<>> THEN TRUE ELSE freeIP[Len(freeIP)].err = ""

\* freeIP, err := getFreeIP(ipRange, usedIPs); usedIPs = append(usedIPs, freeIP)
AllocateIP ==
    /\ Allocating
    /\ LET r == getFreeIP(ipRange, usedIPs) IN
          /\ r.err = ""
          /\ freeIP' = Append(freeIP, r)
          /\ usedIPs' = Append(usedIPs, r.ip)
    /\ UNCHANGED ipRange
    /\ UNCHANGED notIP

\* freeIP, err := getFreeIP(ipRange, usedIPs); if err != nil { return }
AllocateExhausted ==
    /\ Allocating
    /\ LET r == getFreeIP(ipRange, usedIPs) IN
          /\ r.err # ""
          /\ freeIP' = Append(freeIP, r)
    /\ UNCHANGED <<ipRange, usedIPs>>
    /\ UNCHANGED notIP

IPNext ==
    \/ AllocateIP
    \/ AllocateExhausted

(***************************************************************************)
(* NetworkConfiguration.generateDeployments                                *)
(***************************************************************************)
MaxNodes  == 3          \* length of the declared node list
MaxNodeId == 3          \* node ids are 1..MaxNodeId

\* A wgtypes.Key: the n-th key drawn, private or public.
PrivateKey(n) == [kind |-> "private", n |-> n]
\* Key.PublicKey(): the public key of a private key.
PublicKey(k) == [kind |-> "public", n |-> k.n]
\* Key.String(): the text of a key.
KeyString(k) == (IF k.kind = "private" THEN "sk" ELSE "pk") \o ToString(k.n)

\* wgIP(ip): 100.64.a.b/32 with a, b the second and third octet of ip.
wgIP(ip) == [ip |-> <<100, 64, ip.ip[2], ip.ip[3]>>, mask |-> 32]

\* getNodeEndpoint(nodeId, wgPort): nodeIps[nodeId] is "" for an unknown node.
NodeIps(nodeId) ==
    CASE nodeId = 1 -> "2a02:1802:5e:16:ec4:7aff:fe30:65b4"
      [] nodeId = 2 -> "2a02:1802:5e:16:225:90ff:fef5:582e"
      [] nodeId = 3 -> "2a02:1802:5e:16:225:90ff:fef5:6d02"
      [] nodeId = 4 -> "2a02:1802:5e:16:225:90ff:fe87:d7b4"
      [] OTHER -> ""
getNodeEndpoint(nodeId, wgPort) == "[" \o NodeIps(nodeId) \o "]:" \o ToString(wgPort)

\* getPublicNode()
getPublicNode == 1

\* The identity of the caller (userInfo).
UserInfo == [TwinID |-> 14]

\* generateWGConfig(...): the fields of the generated text.
generateWGConfig(Address, AccessPrivatekey, NodePublicKey, NodeEndpoint, NetworkIPRange) ==
    [Address |-> Address,
     PrivateKey |-> AccessPrivatekey,
     PublicKey |-> NodePublicKey,
     AllowedIPs |-> <<NetworkIPRange, "100.64.0.0/16">>,
     PersistentKeepalive |-> 25,
     Endpoint |-> NodeEndpoint]

\* net.IPNet.String(): the address, "/" and the length of the mask.
IPNetString(n) == DottedQuad(n.ip) \o "/" \o ToString(n.mask)

\* A mutation of the peer entry: the external routes are added for every
\* neighbour (the test neigh == nc.PublicNodeID is missing).
PeerEntryAlwaysExternal(cfg, neigh) ==
    [Subnet |-> cfg.IPs[neigh],
     WGPublicKey |-> KeyString(PublicKey(cfg.Keys[neigh])),
     Endpoint |-> getNodeEndpoint(neigh, cfg.WGPort[neigh]),
     AllowedIPs |-> <<cfg.IPs[neigh], wgIP(cfg.IPs[neigh]),
                      cfg.ExternalNodeIP, wgIP(cfg.ExternalNodeIP)>>]

\* The zos.Peer appended for neighbour `neigh` (lines 302-319).
PeerEntry(cfg, neigh) ==
    LET neigh_ip_range == cfg.IPs[neigh]
        neigh_port == cfg.WGPort[neigh]
        neigh_pubkey == KeyString(PublicKey(cfg.Keys[neigh]))
        allowed_ips ==
            <<neigh_ip_range, wgIP(neigh_ip_range)>>
            \o (IF neigh = cfg.PublicNodeID
                THEN <<cfg.ExternalNodeIP, wgIP(cfg.ExternalNodeIP)>>
                ELSE <<>>)
    IN  [Subnet |-> neigh_ip_range,
         WGPublicKey |-> neigh_pubkey,
         Endpoint |-> getNodeEndpoint(neigh, neigh_port),
         AllowedIPs |-> allowed_ips]

\* A mutation of the external peer: it is given the public node's endpoint.
ExternalPeerWithEndpoint(cfg) ==
    [Subnet |-> cfg.ExternalNodeIP,
     WGPublicKey |-> KeyString(PublicKey(cfg.ExternalNodeKey)),
     Endpoint |-> getNodeEndpoint(cfg.PublicNodeID, cfg.WGPort[cfg.PublicNodeID]),
     AllowedIPs |-> <<cfg.ExternalNodeIP, wgIP(cfg.ExternalNodeIP)>>]

\* The zos.Peer of the external access point (lines 326-330): no endpoint.
ExternalPeer(cfg) ==
    [Subnet |-> cfg.ExternalNodeIP,
     WGPublicKey |-> KeyString(PublicKey(cfg.ExternalNodeKey)),
     Endpoint |-> "",
     AllowedIPs |-> <<cfg.ExternalNodeIP, wgIP(cfg.ExternalNodeIP)>>]

\* A mutation of the peer loop: the self check (node == neigh) is missing.
PeersOfWithSelf(cfg, node) ==
    [k \in 1..Len(cfg.NodeIDs) |-> PeerEntry(cfg, cfg.NodeIDs[k])]
    \o (IF node = cfg.PublicNodeID THEN <<ExternalPeer(cfg)>> ELSE <<>>)

\* The peers of `node`: the inner loop over nc.NodeIDs, then the external peer.
PeersOf(cfg, node) ==
    LET neighs == SelectSeq(cfg.NodeIDs, LAMBDA n : n # node)
    IN  [k \in 1..Len(neighs) |-> PeerEntry(cfg, neighs[k])]
        \o (IF node = cfg.PublicNodeID THEN <<ExternalPeer(cfg)>> ELSE <<>>)

\* The network workload and the signed deployment of `node` (lines 340-377).
NodeDeployment(cfg, node) ==
    [Version |-> 0,
     TwinID |-> UserInfo.TwinID,
     ContractID |-> 0,
     SignedBy |-> <<UserInfo.TwinID>>,
     Workloads |->
        << [Version |-> 0,
            Type |-> "network",
            Description |-> "test network",
            Name |-> "network1",
            Data |-> [NetworkIPRange |-> [ip |-> <<10, 1, 0, 0>>, mask |-> 16],
                      Subnet |-> cfg.IPs[node],
                      WGPrivateKey |-> KeyString(cfg.Keys[node]),
                      WGListenPort |-> cfg.WGPort[node] % 65536,
                      Peers |-> PeersOf(cfg, node)]] >>]

\* A mutation of the access configuration: it is written for the first node
\* of the list, whichever it is (the test node == nc.PublicNodeID is missing).
AccessConfigurationFirstNode(cfg) ==
    IF cfg.NodeIDs # <<>>
    THEN <<generateWGConfig("100.64.1.2",
                            KeyString(cfg.ExternalNodeKey),
                            KeyString(PublicKey(cfg.Keys[cfg.NodeIDs[1]])),
                            "185.206.122.31" \o ":" \o ToString(cfg.WGPort[cfg.NodeIDs[1]]),
                            "10.1.0.0/16")>>
    ELSE <<>>

\* The access configuration: written when the loop passes the public node.
AccessConfiguration(cfg) ==
    IF \E k \in DOMAIN cfg.NodeIDs : cfg.NodeIDs[k] = cfg.PublicNodeID
    THEN <<generateWGConfig("100.64.1.2",
                            KeyString(cfg.ExternalNodeKey),
                            KeyString(PublicKey(cfg.Keys[cfg.PublicNodeID])),
                            "185.206.122.31" \o ":" \o ToString(cfg.WGPort[cfg.PublicNodeID]),
                            "10.1.0.0/16")>>
    ELSE <<>>

\* generateDeployments: one deployment per entry of nc.NodeIDs, in order.
generateDeployments(cfg) ==
    [WGAccessConfiguration |-> AccessConfiguration(cfg),
     Deployments |-> [k \in 1..Len(cfg.NodeIDs) |-> NodeDeployment(cfg, cfg.NodeIDs[k])]]

\* The NetworkConfiguration resourceNetworkCreate builds (lines 403-453) for
\* the declared node list, with ports[idx] the port getNodeFreeWGPort gave
\* for the idx-th entry; the idx-th key drawn is key idx, the external key 0.
LastIndex(node_ids, node) ==
    LET at == {k \in DOMAIN node_ids : node_ids[k] = node}
    IN  CHOOSE k \in at : \A j \in at : j <= k

newNetworkConfig(node_ids, ports) ==
    [NodeIDs |-> node_ids,
     Keys |-> [n \in Range(node_ids) |-> PrivateKey(LastIndex(node_ids, n))],
     IPs |-> [n \in Range(node_ids) |->
                 ipNet(10, 1, Byte((LastIndex(node_ids, n) - 1) + 3), 0, 24)],
     WGPort |-> [n \in Range(node_ids) |-> ports[LastIndex(node_ids, n)]],
     PublicNodeID |-> getPublicNode,
     ExternalNodeIP |-> ipNet(10, 1, 2, 0, 24),
     ExternalNodeKey |-> PrivateKey(0)]

\* ---- the inputs of SpecGen ----
NodeIds == 1..MaxNodeId
PortChoices == {2000, 7999}

GenIdle ==
    /\ nc = newNetworkConfig(<<>>, <<>>)
    /\ deploymentInfo = <<>>

GenInit ==
    /\ \E node_ids \in SeqUpTo(NodeIds, MaxNodes) :
         \E ports \in [DOMAIN node_ids -> PortChoices] :
            nc = newNetworkConfig(node_ids, ports)
    /\ deploymentInfo = <<>>

\* deployments, err := networkConfig.generateDeployments(userInfo)
GenerateDeployments ==
    /\ deploymentInfo = <<>>
    /\ deploymentInfo' = <<generateDeployments(nc)>>
    /\ UNCHANGED nc
    /\ UNCHANGED notGen

GenNext ==
    \/ GenerateDeployments

(***************************************************************************)
(* resourceDeploymentCreate / resourceDeploymentUpdate                     *)
(*                                                                         *)
(* `d` is the resource data Terraform keeps between runs: a run reads the  *)
(* prior values from it (d.GetChange) and writes with d.Set / d.SetId.     *)
(***************************************************************************)
MaxRuns == 3            \* create and update runs in one behaviour
MaxFailures == 1        \* failing runs in one behaviour

Version == 0            \* const Version = 0

\* strconv.FormatUint(contractID, 10) and strconv.ParseUint(d.Id(), 10, 64)
ContractIDs == {41, 42}
FormatUint(n) == ToString(n)
ParseUint(str) == CHOOSE n \in ContractIDs : FormatUint(n) = str

\* The lowest h in lo..hi with DottedQuad(<<a, b, c, h>>) = str, else hi + 1.
RECURSIVE FindOctet(_, _, _, _)
FindOctet(str, prefix, lo, hi) ==
    IF lo > hi THEN hi + 1
    ELSE IF lo = hi
    THEN IF DottedQuad(<<prefix[1], prefix[2], prefix[3], lo>>) = str THEN lo ELSE hi + 1
    ELSE LET mid == (lo + hi) \div 2
             low == FindOctet(str, prefix, lo, mid)
         IN  IF low <= mid THEN low ELSE FindOctet(str, prefix, mid + 1, hi)

\* net.ParseIP on a dotted quad: the four octets whose text it is, searched
\* among the addresses of the declared ranges; nil (<<>>) when there is none.
ParseIP(str) ==
    IF \E r \in IPRanges : FindOctet(str, r.ip, 0, 255) <= 255
    THEN LET r == CHOOSE r \in IPRanges : FindOctet(str, r.ip, 0, 255) <= 255
         IN  <<r.ip[1], r.ip[2], r.ip[3], FindOctet(str, r.ip, 0, 255)>>
    ELSE <<>>

\* hex.EncodeToString(crypto.EncryptECDH(password, ...)): the ciphertext.
EncryptECDH(password) == "enc(" \o password \o ")"

\* envVars[key] = value over the env_vars list: the last write of a key wins.
EnvMap(env_vars) ==
    [k \in {env_vars[i].key : i \in DOMAIN env_vars} |->
        env_vars[CHOOSE i \in DOMAIN env_vars :
                    /\ env_vars[i].key = k
                    /\ \A j \in DOMAIN env_vars : env_vars[j].key = k => j <= i].value]

\* The zos.MachineMount list built from data["mounts"].
MachineMounts(mount_points) ==
    [i \in DOMAIN mount_points |->
        [Name |-> mount_points[i].disk_name, Mountpoint |-> mount_points[i].mount_point]]

\* gridtypes.Unit(n) * gridtypes.Gigabyte (or Megabyte): the count and its unit.
Unit(n, unit) == [n |-> n, unit |-> unit]

DiskWorkload(data, version) ==
    [Name |-> data.name, Version |-> version, Type |-> "zmount",
     Description |-> data.description,
     Data |-> [Size |-> Unit(data.size, "Gigabyte")]]

ZdbWorkload(data, version) ==
    [Name |-> data.name, Version |-> version, Type |-> "zdb",
     Description |-> data.description,
     Data |-> [Size |-> data.size, Mode |-> data.mode,
               Password |-> EncryptECDH(data.password)]]

VmWorkload(data, version, network, ip) ==
    [Name |-> data.name, Version |-> version, Type |-> "zmachine",
     Description |-> "",
     Data |-> [FList |-> data.flist,
               Network |-> [Interfaces |-> <<[Network |-> network, IP |-> ip]>>,
                            Planetary |-> TRUE],
               ComputeCapacity |-> [CPU |-> data.cpu % 256,
                                    Memory |-> Unit(data.memory, "Megabyte")],
               Entrypoint |-> data.entrypoint,
               Mounts |-> MachineMounts(data.mounts),
               Env |-> EnvMap(data.env_vars)]]

\* gridtypes.Deployment with its signature requirement; SignedBy is filled by Sign.
Deployment(version, workloads) ==
    [Version |-> version, TwinID |-> UserInfo.TwinID, ContractID |-> 0,
     SignedBy |-> <<>>, Workloads |-> workloads]

NoManifest == Deployment(0, <<>>)

\* The machine loop of create (lines 328-379): version 0 and a free IP each.
\* The machines lo..hi are handled in order, each with the addresses the
\* earlier ones took; the first getFreeIP error ends the run.
RECURSIVE CreateVmsIn(_, _, _, _, _)
CreateVmsIn(vms, lo, hi, rng, used) ==
    IF lo > hi THEN [vms |-> <<>>, used |-> used, err |-> ""]
    ELSE IF lo = hi
    THEN LET r == getFreeIP(rng, used) IN
         IF r.err # "" THEN [vms |-> <<>>, used |-> used, err |-> r.err]
         ELSE [vms |-> <<[vms[lo] EXCEPT !.version = Version, !.ip = r.ip]>>,
               used |-> Append(used, r.ip), err |-> ""]
    ELSE LET mid == (lo + hi) \div 2
             left == CreateVmsIn(vms, lo, mid, rng, used)
         IN  IF left.err # "" THEN left
             ELSE LET right == CreateVmsIn(vms, mid + 1, hi, rng, left.used)
                  IN  [vms |-> left.vms \o right.vms, used |-> right.used,
                       err |-> right.err]

CreateVms(vms, rng, used) == CreateVmsIn(vms, 1, Len(vms), rng, used)

\* The steps of a run that can fail for reasons outside the provider, in
\* program order, and the remote calls among them.
CreateSteps == <<"Valid", "Sign", "CreateContract", "DeploymentDeploy",
                 "waitDeployment", "DeploymentGet">>
UpdateSteps == <<"Valid", "Sign", "Counters", "UpdateContract", "DeploymentUpdate",
                 "waitDeployment", "DeploymentGet">>
DeleteSteps == <<"CancelContract", "DeploymentDelete">>
LocalSteps == {"Valid", "Sign"}

\* A mutation of the early returns: a step that fails does not end the run.
StepsUntilIgnoringErrors(steps, fail) == steps

\* The steps a run performs when `fail` fails ("" when none does): every
\* `if err != nil { return ... }` ends the run at the step that failed.
StepsUntil(steps, fail) ==
    LET failAt == IF \E i \in DOMAIN steps : steps[i] = fail
                  THEN CHOOSE i \in DOMAIN steps : steps[i] = fail
                  ELSE Len(steps)
    IN  SubSeq(steps, 1, failAt)

\* The remote calls issued by a run that fails at `fail` ("" when none fails).
CallsUntil(steps, fail) ==
    SelectSeq(StepsUntil(steps, fail), LAMBDA st : st \notin LocalSteps)

\* What a step is handed: the deployment's version, signature and contract
\* id at that point of the run.
StepView(st, dep) ==
    [step |-> st, Version |-> dep.Version, SignedBy |-> dep.SignedBy,
     ContractID |-> dep.ContractID]

\* The steps performed with the deployment each was handed: dl is validated
\* and signed, the ledger call and Counters come after Sign, and everything
\* after the ledger call sees the contract id it returned.
Trail(steps, fail, ledgerCall, dl, signed, submitted) ==
    LET done == StepsUntil(steps, fail)
        at == CHOOSE i \in DOMAIN steps : steps[i] = ledgerCall
    IN  [i \in DOMAIN done |->
            StepView(done[i],
                     IF done[i] = "Valid" THEN dl
                     ELSE IF i <= at THEN signed
                     ELSE submitted)]

\* ---- the inputs of SpecDeploy ----
Web1(f, c) == Vm("web1", f, c, 1024, "/sbin/init", <<>>, <<>>, 0, "")
Web2 == Vm("web2", "flist1", 1, 1024, "/sbin/init", <<>>, <<>>, 0, "")
\* A machine that mounts the disk named dn.
WebMounting(dn) ==
    Vm("web1", "flist1", 1, 1024, "/sbin/init", <<Mount(dn, "/data")>>, <<>>, 0, "")
\* One machine more than getFreeIP has addresses for.
TooManyVms ==
    [i \in 1..(HostLimit - FirstHost + 1) |->
        Vm("vm" \o ToString(i), "flist1", 1, 1024, "/sbin/init", <<>>, <<>>, 0, "")]

Config(node, disks, zdbs, vms) ==
    [node |-> node, disks |-> disks, zdbs |-> zdbs, vms |-> vms,
     ip_range |-> ipNet(10, 1, 1, 0, 24), network_name |-> "net1"]

BaseDisks == <<Disk("d1", 1, "x", 0)>>
BaseZdbs  == <<Zdb("z1", "pw1", 1, "x", "seq", 0)>>
BaseVms   == <<Web1("flist1", 1)>>

\* The declared configurations: a base configuration, and the base with its
\* disks, its storage nodes, its machines or its node changed; and a machine
\* that mounts the declared disk d1 or the undeclared disk d2.
Configs ==
    {Config(1, BaseDisks, BaseZdbs, BaseVms)}
    \cup {Config(1, ds, BaseZdbs, BaseVms) : ds \in {<<>>, <<Disk("d1", 2, "x", 0)>>}}
    \cup {Config(1, BaseDisks, zs, BaseVms) : zs \in {<<Zdb("z1", "pw1", 2, "x", "seq", 0)>>}}
    \cup {Config(1, BaseDisks, BaseZdbs, vs) :
             vs \in {<<Web1("flist1", 2)>>, <<Web1("flist2", 1)>>,
                     <<Web1("flist1", 1), Web2>>}}
    \cup {Config(2, BaseDisks, BaseZdbs, BaseVms)}
    \cup {Config(1, BaseDisks, BaseZdbs, <<WebMounting(dn)>>) : dn \in DiskNames}

\* The configurations offered to create: those, and one with more machines
\* than the range has addresses.
CreateConfigs == Configs \cup {Config(1, <<>>, <<>>, TooManyVms)}

\* The machine loop of create on each of them; used_ips is computed only,
\* so the loop starts from an empty list.
Allocated == [cfg \in CreateConfigs |-> CreateVms(cfg.vms, cfg.ip_range, <<>>)]

Absent ==
    [id |-> "", node |-> 0, disks |-> <<>>, zdbs |-> <<>>, vms |-> <<>>,
     used_ips |-> <<>>, version |-> 0,
     ip_range |-> ipNet(0, 0, 0, 0, 0), network_name |-> ""]

\* resourceDeploymentCreate on the declared configuration cfg; `fail` names
\* the step that fails ("" for none) and contractID is the ledger's answer.
resourceDeploymentCreate(cfg, fail, contractID) ==
    LET disks == [i \in DOMAIN cfg.disks |-> [cfg.disks[i] EXCEPT !.version = Version]]
        zdbs  == [i \in DOMAIN cfg.zdbs |-> [cfg.zdbs[i] EXCEPT !.version = Version]]
        alloc == Allocated[cfg]
        workloads ==
            [i \in DOMAIN disks |-> DiskWorkload(disks[i], Version)]
            \o [i \in DOMAIN zdbs |-> ZdbWorkload(zdbs[i], Version)]
            \o [i \in DOMAIN alloc.vms |->
                   VmWorkload(alloc.vms[i], Version, cfg.network_name,
                              ParseIP(alloc.vms[i].ip))]
        dl == Deployment(Version, workloads)
        signed == [dl EXCEPT !.SignedBy = <<UserInfo.TwinID>>]
        submitted == [signed EXCEPT !.ContractID = contractID]
        steps == Trail(CreateSteps, fail, "CreateContract", dl, signed, submitted)
    IN  IF alloc.err # ""
        THEN [d |-> Absent, manifest |-> NoManifest, err |-> alloc.err, calls |-> <<>>,
              steps |-> <<>>]
        ELSE IF fail \in {"Valid", "Sign"}
        THEN [d |-> Absent, manifest |-> dl, err |-> fail,
              calls |-> CallsUntil(CreateSteps, fail), steps |-> steps]
        ELSE IF fail = "CreateContract"
        THEN [d |-> Absent, manifest |-> signed, err |-> fail,
              calls |-> CallsUntil(CreateSteps, fail), steps |-> steps]
        ELSE IF fail # ""
        THEN [d |-> Absent, manifest |-> submitted, err |-> fail,
              calls |-> CallsUntil(CreateSteps, fail), steps |-> steps]
        ELSE [d |-> [id |-> FormatUint(contractID), node |-> cfg.node,
                     disks |-> disks,
                     \* d.Set("zdb", ...) names no attribute: zdbs keeps the
                     \* declared values, whose computed version is 0
                     zdbs |-> [i \in DOMAIN cfg.zdbs |-> [cfg.zdbs[i] EXCEPT !.version = 0]],
                     vms |-> alloc.vms,
                     used_ips |-> alloc.used, version |-> 0,
                     ip_range |-> cfg.ip_range, network_name |-> cfg.network_name],
              manifest |-> submitted, err |-> "",
              calls |-> CallsUntil(CreateSteps, fail), steps |-> steps]

\* version := 0; prior+1 when changed, prior when unchanged (lines 633-640,
\* 661-668, 693-700).
NextVersion(res) ==
    IF res.changed /\ res.old # <<>> THEN res.old[1].version + 1
    ELSE IF ~res.changed /\ res.old # <<>> THEN res.old[1].version
    ELSE 0

\* The value d.Get gives for the computed ip of the i-th declared machine:
\* the prior value at that position.
PlannedIP(dd, i) == IF i \in DOMAIN dd.vms THEN dd.vms[i].ip ELSE ""

\* resourceDeploymentUpdate on prior data dd and the declared configuration.
resourceDeploymentUpdate(dd, cfg, fail) ==
    LET disks == [i \in DOMAIN cfg.disks |->
                    [cfg.disks[i] EXCEPT
                        !.version = NextVersion(diskHasChanged(cfg.disks[i], dd.disks))]]
        zdbs  == [i \in DOMAIN cfg.zdbs |->
                    [cfg.zdbs[i] EXCEPT
                        !.version = NextVersion(zdbHasChanged(cfg.zdbs[i], dd.zdbs))]]
        vms   == [i \in DOMAIN cfg.vms |->
                    [cfg.vms[i] EXCEPT
                        !.version = NextVersion(vmHasChanged(cfg.vms[i], dd.vms)),
                        !.ip = PlannedIP(dd, i)]]
        workloads ==
            [i \in DOMAIN disks |-> DiskWorkload(disks[i], disks[i].version)]
            \o [i \in DOMAIN zdbs |-> ZdbWorkload(zdbs[i], Version)]
            \o [i \in DOMAIN vms |->
                   VmWorkload(vms[i], vms[i].version, "network", <<10, 1, 1, 3>>)]
        dl == Deployment(dd.version + 1, workloads)
        signed == [dl EXCEPT !.SignedBy = <<UserInfo.TwinID>>]
        contractID == ParseUint(dd.id)
        submitted == [signed EXCEPT !.ContractID = contractID]
        \* d.Set("disks"), d.Set("zdbs"), d.Set("vms") precede every later step
        set == [dd EXCEPT !.disks = disks, !.zdbs = zdbs, !.vms = vms]
        steps == Trail(UpdateSteps, fail, "UpdateContract", dl, signed, submitted)
    IN  IF cfg.node # dd.node
        THEN [d |-> dd, manifest |-> NoManifest,
              err |-> "changing node is not supported", calls |-> <<>>,
              steps |-> <<>>]
        ELSE IF fail \in {"Valid", "Sign"}
        THEN [d |-> set, manifest |-> dl, err |-> fail,
              calls |-> CallsUntil(UpdateSteps, fail), steps |-> steps]
        ELSE IF fail \in {"Counters", "UpdateContract"}
        THEN [d |-> set, manifest |-> signed, err |-> fail,
              calls |-> CallsUntil(UpdateSteps, fail), steps |-> steps]
        ELSE IF fail # ""
        THEN [d |-> set, manifest |-> submitted, err |-> fail,
              calls |-> CallsUntil(UpdateSteps, fail), steps |-> steps]
        ELSE [d |-> [set EXCEPT !.id = FormatUint(contractID)],
              manifest |-> submitted, err |-> "",
              calls |-> CallsUntil(UpdateSteps, fail), steps |-> steps]

\* A mutation of delete: the id is cleared whatever the calls return.
resourceDeploymentDeleteAlwaysClears(dd, fail) ==
    LET contractID == ParseUint(dd.id)
        steps == [i \in DOMAIN StepsUntil(DeleteSteps, fail) |->
                     [step |-> DeleteSteps[i], Version |-> 0, SignedBy |-> <<>>,
                      ContractID |-> contractID]]
    IN  [d |-> [dd EXCEPT !.id = ""],
         err |-> fail,
         calls |-> CallsUntil(DeleteSteps, fail),
         steps |-> steps]

\* resourceDeploymentDelete on prior data dd: the contract named by d.Id()
\* is cancelled, then the node agent is asked to delete the deployment;
\* either error is returned, and d.SetId("") follows only when both succeed.
resourceDeploymentDelete(dd, fail) ==
    LET contractID == ParseUint(dd.id)
        steps == [i \in DOMAIN StepsUntil(DeleteSteps, fail) |->
                     [step |-> DeleteSteps[i], Version |-> 0, SignedBy |-> <<>>,
                      ContractID |-> contractID]]
    IN  [d |-> IF fail = "" THEN [dd EXCEPT !.id = ""] ELSE dd,
         err |-> fail,
         calls |-> CallsUntil(DeleteSteps, fail),
         steps |-> steps]

NoRun == [op |-> "none", err |-> "", calls |-> <<>>, steps |-> <<>>]

DeployIdle ==
    /\ d = Absent
    /\ manifest = NoManifest
    /\ lastRun = NoRun
    /\ runs = 0
    /\ failures = 0

DeployInit == DeployIdle

\* The behaviours explored: at most MaxRuns runs, MaxFailures of them failing.
MayRun(fail) == runs < MaxRuns /\ (fail # "" => failures < MaxFailures)
Counted(err) ==
    /\ runs' = runs + 1
    /\ failures' = IF err = "" THEN failures ELSE failures + 1

\* A create run: the resource has no id yet.  The ledger's contract id is
\* drawn only when the run reaches the answer of CreateContract.
Create ==
    /\ d.id = ""
    /\ \E cfg \in CreateConfigs, fail \in Range(CreateSteps) \cup {""} :
         /\ MayRun(fail)
         /\ \E contractID \in (IF fail \in {"Valid", "Sign", "CreateContract"}
                               THEN {0} ELSE ContractIDs) :
              LET r == resourceDeploymentCreate(cfg, fail, contractID) IN
                 /\ d' = r.d
                 /\ manifest' = r.manifest
                 /\ lastRun' = [op |-> "create", err |-> r.err, calls |-> r.calls,
                                 steps |-> r.steps]
                 /\ Counted(r.err)
    /\ UNCHANGED notDeploy

\* An update run: the resource has an id.
Update ==
    /\ d.id # ""
    /\ \E cfg \in Configs, fail \in Range(UpdateSteps) \cup {""} :
         /\ MayRun(fail)
         /\ LET r == resourceDeploymentUpdate(d, cfg, fail) IN
               /\ d' = r.d
               /\ manifest' = r.manifest
               /\ lastRun' = [op |-> "update", err |-> r.err, calls |-> r.calls,
                               steps |-> r.steps]
               /\ Counted(r.err)
    /\ UNCHANGED notDeploy

\* A delete run: the resource has an id.
Delete ==
    /\ d.id # ""
    /\ \E fail \in Range(DeleteSteps) \cup {""} :
         /\ MayRun(fail)
         /\ LET r == resourceDeploymentDelete(d, fail) IN
               /\ d' = r.d
               /\ lastRun' = [op |-> "delete", err |-> r.err, calls |-> r.calls,
                               steps |-> r.steps]
               /\ Counted(r.err)
    /\ UNCHANGED manifest
    /\ UNCHANGED notDeploy

DeployNext ==
    \/ Create
    \/ Update
    \/ Delete

(***************************************************************************)
(* resourceNetworkCreate / resourceNetworkUpdate                           *)
(*                                                                         *)
(* `nd` is the resource data of the network resource.  A run builds its    *)
(* networkConfig, generates one deployment per declared node and submits   *)
(* them node by node; netCalls lists the ledger and agent calls it made.   *)
(***************************************************************************)
MaxNetRuns == 3         \* create and update runs in one behaviour
WrapLen == 256          \* length of the long node list offered to create

\* The result states DeploymentGet can show for the network workload: ok, or
\* the empty state of a workload the agent has not finished.
GotStates == {StateOk, ""}

\* One ledger or agent call: the deployment handed over (<<>> when the call
\* takes none) and the workload state read (<<>> when the call reads none).
NetCall(call, node, contract, dl, got) ==
    [call |-> call, node |-> node, contract |-> contract, dl |-> dl, got |-> got]

\* A mutation of the stored record: the contract id is left at the sentinel.
NodeDeploymentsInfoNoContract(ver, DeploymentID, NodeID, sk, pk, WGPort, IPRange) ==
    [version |-> ver, deployment_id |-> -1, node_id |-> NodeID,
     wg_private_key |-> sk, wg_public_key |-> pk,
     wg_port |-> WGPort, ip_range |-> IPRange]

\* NodeDeploymentsInfo, as Dictify stores it in deployment_info.
NodeDeploymentsInfo(ver, DeploymentID, NodeID, sk, pk, WGPort, IPRange) ==
    [version |-> ver, deployment_id |-> DeploymentID, node_id |-> NodeID,
     wg_private_key |-> sk, wg_public_key |-> pk,
     wg_port |-> WGPort, ip_range |-> IPRange]

\* The texts Key.String() gives for the keys a behaviour can draw, and the
\* texts IPNet.String() gives for the networks 10.1.c.0/m the provider writes
\* (m = 24 for subnets, 16 for the declared range).
KeyTexts == [n \in 0..(WrapLen + 3 * MaxNetRuns) |-> KeyString(PrivateKey(n))]
SubnetTexts ==
    [m \in {16, 24} |-> [c \in 0..255 |-> IPNetString(ipNet(10, 1, c, 0, m))]]

\* wgtypes.ParseKey: the private key whose text str is, among the keys
\* drawn so far (numbers 0..drawn).
ParseKey(str, drawn) == PrivateKey(CHOOSE n \in 0..drawn : KeyTexts[n] = str)

\* gridtypes.MustParseIPNet: the network whose text str is.
MustParseIPNet(str) ==
    IF \E c \in 0..255 : SubnetTexts[24][c] = str
    THEN ipNet(10, 1, CHOOSE c \in 0..255 : SubnetTexts[24][c] = str, 0, 24)
    ELSE ipNet(10, 1, CHOOSE c \in 0..255 : SubnetTexts[16][c] = str, 0, 16)

\* The resource before creation.
NetAbsent ==
    [id |-> "", nodes |-> <<>>, ip_range |-> "", deployment_info |-> <<>>,
     public_node_id |-> 0, access_wg_config |-> <<>>,
     external_ip |-> "", external_sk |-> ""]

\* ---- resourceNetworkCreate ----
\* A mutation of the calls of create: every deployment goes to the public
\* node instead of the node it was generated for.
CreateCallsToPublicNode(node, contractID, dl, got) ==
    << NetCall("CreateContract", getPublicNode, contractID, <<>>, <<>>),
       NetCall("DeploymentDeploy", getPublicNode, contractID, <<dl>>, <<>>),
       NetCall("DeploymentGet", getPublicNode, contractID, <<>>, <<got>>) >>

\* The calls for the idx-th deployment (lines 478-490).
CreateCalls(node, contractID, dl, got) ==
    << NetCall("CreateContract", node, contractID, <<>>, <<>>),
       NetCall("DeploymentDeploy", node, contractID, <<dl>>, <<>>),
       NetCall("DeploymentGet", node, contractID, <<>>, <<got>>) >>

\* The per-deployment call lists, each of the same length, one after another.
Flatten(ss) ==
    LET k == IF ss = <<>> THEN 0 ELSE Len(ss[1]) IN
    [i \in 1..(Len(ss) * k) |-> ss[((i - 1) \div k) + 1][((i - 1) % k) + 1]]

\* resourceNetworkCreate for the declared node list: ports[idx] is the port
\* getNodeFreeWGPort gives, gots[idx] the state DeploymentGet shows, and the
\* ledger numbers its contracts from lastContract + 1.
resourceNetworkCreate(node_ids, ip_range, ports, gots, lastContract) ==
    LET cfg == newNetworkConfig(node_ids, ports)
        info == generateDeployments(cfg)
        contractOf == [idx \in DOMAIN node_ids |-> lastContract + idx]
        submitted == [idx \in DOMAIN node_ids |->
                         [info.Deployments[idx] EXCEPT !.ContractID = contractOf[idx]]]
        stateInfo ==
            [idx \in DOMAIN node_ids |->
                NodeDeploymentsInfo(0, contractOf[idx], node_ids[idx],
                    KeyString(PrivateKey(idx)), KeyString(PublicKey(PrivateKey(idx))),
                    ports[idx],
                    IPNetString(ipNet(10, 1, Byte((idx - 1) + 3), 0, 24)))]
    IN  [d |-> [id |-> "uuid", nodes |-> node_ids, ip_range |-> ip_range,
                deployment_info |-> stateInfo,
                public_node_id |-> getPublicNode,
                access_wg_config |-> info.WGAccessConfiguration,
                external_ip |-> IPNetString(cfg.ExternalNodeIP),
                external_sk |-> KeyString(cfg.ExternalNodeKey)],
         config |-> cfg,
         calls |-> Flatten([idx \in DOMAIN node_ids |->
                      CreateCalls(node_ids[idx], contractOf[idx], submitted[idx], gots[idx])]),
         err |-> "",
         keys |-> Len(node_ids),
         contracts |-> lastContract + Len(node_ids)]

\* ---- resourceNetworkUpdate ----
\* loadStaet(d)
loadStaet(dd) == dd.deployment_info

\* A mutation of loadNetworkConfig: the recorded ports are not loaded, every
\* node is given the first port of the range.
loadNetworkConfigDefaultPorts(dd, stateInfo, drawn) ==
    LET ids == [i \in DOMAIN stateInfo |-> stateInfo[i].node_id]
        of(n) == stateInfo[LastIndex(ids, n)]
    IN  [NodeIDs |-> ids,
         Keys |-> [n \in Range(ids) |-> ParseKey(of(n).wg_private_key, drawn)],
         IPs |-> [n \in Range(ids) |-> MustParseIPNet(of(n).ip_range)],
         WGPort |-> [n \in Range(ids) |-> 2000],
         Versions |-> [n \in Range(ids) |-> of(n).version],
         DeplotmentIDs |-> [n \in Range(ids) |-> of(n).deployment_id],
         PublicNodeID |-> dd.public_node_id,
         ExternalNodeIP |-> MustParseIPNet(dd.external_ip),
         ExternalNodeKey |-> ParseKey(dd.external_sk, drawn)]

\* loadNetworkConfig(d, stateInfo): a later entry of a node replaces an
\* earlier one in the maps.
loadNetworkConfig(dd, stateInfo, drawn) ==
    LET ids == [i \in DOMAIN stateInfo |-> stateInfo[i].node_id]
        of(n) == stateInfo[LastIndex(ids, n)]
    IN  [NodeIDs |-> ids,
         Keys |-> [n \in Range(ids) |-> ParseKey(of(n).wg_private_key, drawn)],
         IPs |-> [n \in Range(ids) |-> MustParseIPNet(of(n).ip_range)],
         WGPort |-> [n \in Range(ids) |-> of(n).wg_port],
         Versions |-> [n \in Range(ids) |-> of(n).version],
         DeplotmentIDs |-> [n \in Range(ids) |-> of(n).deployment_id],
         PublicNodeID |-> dd.public_node_id,
         ExternalNodeIP |-> MustParseIPNet(dd.external_ip),
         ExternalNodeKey |-> ParseKey(dd.external_sk, drawn)]

\* isInByte(l, i) and isInInt(l, i)
isInByte(l, i) == \E k \in DOMAIN l : l[k] = i
isInInt(l, i) == \E k \in DOMAIN l : l[k] = i

\* for isInByte(usedIps, cur) { cur += 1 }: the value of cur when the loop
\* stops, cur being a byte; -1 when every byte is used and it never stops.
SkipUsed(usedIps, cur) ==
    LET free(b) == ~isInByte(usedIps, b) IN
    IF \E b \in cur..255 : free(b)
    THEN CHOOSE b \in cur..255 : free(b) /\ \A c \in cur..(b - 1) : ~free(c)
    ELSE IF \E b \in 0..(cur - 1) : free(b)
    THEN CHOOSE b \in 0..(cur - 1) : free(b) /\ \A c \in 0..(b - 1) : ~free(c)
    ELSE -1

\* The loop of lines 608-626 from position i on: every declared node without
\* a port gets the next unused third octet, a fresh key, a port and the
\* sentinel -1 as version and contract.
RECURSIVE AssignNew(_, _, _, _, _, _, _, _)
AssignNew(cfg, node_ids, i, cur, usedIps, network_ip, ports, drawn) ==
    IF i > Len(node_ids) THEN [cfg |-> cfg, keys |-> drawn, hangs |-> FALSE]
    ELSE LET node == node_ids[i] IN
         IF node \in DOMAIN cfg.WGPort
         THEN AssignNew(cfg, node_ids, i + 1, cur, usedIps, network_ip, ports, drawn)
         ELSE LET at == SkipUsed(usedIps, cur) IN
              IF at = -1 THEN [cfg |-> cfg, keys |-> drawn, hangs |-> TRUE]
              ELSE AssignNew(
                     [cfg EXCEPT
                        !.NodeIDs = Append(cfg.NodeIDs, node),
                        !.IPs = (node :> ipNet(network_ip.ip[1], network_ip.ip[2], at,
                                               network_ip.ip[3], 24)) @@ cfg.IPs,
                        !.Keys = (node :> PrivateKey(drawn + 1)) @@ cfg.Keys,
                        !.WGPort = (node :> ports[i]) @@ cfg.WGPort,
                        !.Versions = (node :> -1) @@ cfg.Versions,
                        !.DeplotmentIDs = (node :> -1) @@ cfg.DeplotmentIDs],
                     node_ids, i + 1, Byte(at + 1), usedIps, network_ip, ports, drawn + 1)

\* A mutation of line 642: the node list of the configuration stays the
\* recorded one (with the new nodes appended) instead of the declared one.
DeclaredConfigKeepRecorded(cfg, node_ids) == cfg

\* networkConfig.NodeIDs = node_ids (line 642).
DeclaredConfig(cfg, node_ids) == [cfg EXCEPT !.NodeIDs = node_ids]

\* A mutation of the calls of update: the sentinel is not looked at, every
\* deployment is sent as an update of its contract.
UpdateCallsAlwaysUpdate(ver, node, contractID, dl, got) ==
    << NetCall("UpdateContract", node, contractID, <<>>, <<>>),
       NetCall("DeploymentUpdate", node, contractID, <<dl>>, <<>>),
       NetCall("DeploymentGet", node, contractID, <<>>, <<got>>) >>

\* The calls for the idx-th deployment (lines 677-716): by the sentinel.
UpdateCalls(ver, node, contractID, dl, got) ==
    << NetCall(IF ver = -1 THEN "CreateContract" ELSE "UpdateContract",
               node, contractID, <<>>, <<>>),
       NetCall(IF ver = -1 THEN "DeploymentDeploy" ELSE "DeploymentUpdate",
               node, contractID, <<dl>>, <<>>),
       NetCall("DeploymentGet", node, contractID, <<>>, <<got>>) >>

\* The calls for a recorded node that is no longer declared (lines 725-742).
CancelCalls(info) ==
    << NetCall("CancelContract", info.node_id, info.deployment_id, <<>>, <<>>),
       NetCall("DeploymentDelete", info.node_id, info.deployment_id, <<>>, <<>>) >>

\* resourceNetworkUpdate on prior data dd for the declared node list.
resourceNetworkUpdate(dd, node_ids, ip_range, ports, gots, drawn, lastContract) ==
    LET stateInfo == loadStaet(dd)
        loaded == loadNetworkConfig(dd, stateInfo, drawn)
        network_ip == MustParseIPNet(ip_range)
        usedIps == <<loaded.ExternalNodeIP.ip[3]>>
                   \o [i \in DOMAIN loaded.NodeIDs |-> loaded.IPs[loaded.NodeIDs[i]].ip[3]]
        assigned == AssignNew(loaded, node_ids, 1, 3, usedIps, network_ip, ports, drawn)
        cfg == DeclaredConfig(assigned.cfg, node_ids)
        info == generateDeployments(cfg)
        ver(idx) == cfg.Versions[node_ids[idx]]
        created(idx) == Cardinality({j \in 1..idx : ver(j) = -1})
        contractOf == [idx \in DOMAIN node_ids |->
                          IF ver(idx) = -1 THEN lastContract + created(idx)
                          ELSE cfg.DeplotmentIDs[node_ids[idx]]]
        submitted == [idx \in DOMAIN node_ids |->
                         [info.Deployments[idx] EXCEPT
                             !.Version = ver(idx) + 1,
                             !.Workloads[1].Version = ver(idx) + 1,
                             !.ContractID = contractOf[idx]]]
        newStateInfo ==
            [idx \in DOMAIN node_ids |->
                NodeDeploymentsInfo(ver(idx) + 1, contractOf[idx], node_ids[idx],
                    KeyString(cfg.Keys[node_ids[idx]]),
                    KeyString(PublicKey(cfg.Keys[node_ids[idx]])),
                    cfg.WGPort[node_ids[idx]],
                    IPNetString(cfg.IPs[node_ids[idx]]))]
        removed == SelectSeq(stateInfo, LAMBDA info_ : ~isInInt(node_ids, info_.node_id))
    IN  IF assigned.hangs
        THEN [d |-> dd, config |-> assigned.cfg, calls |-> <<>>, err |-> "no return",
              keys |-> assigned.keys, contracts |-> lastContract]
        ELSE [d |-> [dd EXCEPT !.nodes = node_ids, !.ip_range = ip_range,
                               !.deployment_info = newStateInfo],
              config |-> cfg,
              calls |-> Flatten([idx \in DOMAIN node_ids |->
                           UpdateCalls(ver(idx), node_ids[idx], contractOf[idx],
                                       submitted[idx], gots[idx])])
                        \o Flatten([k \in DOMAIN removed |-> CancelCalls(removed[k])]),
              err |-> "",
              keys |-> assigned.keys,
              contracts |-> lastContract + created(Len(node_ids))]

\* ---- the inputs of SpecNet ----
\* The declared range, and the declared node lists: lists of the nodes 1..3
\* without repetition, and for create also the list of the nodes 1..WrapLen.
NetIPRange == "10.1.0.0/16"
NetNodeLists == {<<>>, <<1>>, <<1, 2>>, <<2, 1>>, <<2, 3>>, <<1, 2, 3>>}
LongNodeList == [i \in 1..WrapLen |-> i]
FirstContract == 100

\* The ports getNodeFreeWGPort may give to the nodes that get one; the
\* positions of the other nodes are not read.
PortsFor(node_ids, known) ==
    IF Len(node_ids) > 3 THEN {[i \in DOMAIN node_ids |-> 2000]}
    ELSE {ports \in [DOMAIN node_ids -> PortChoices] :
             \A i \in DOMAIN node_ids : node_ids[i] \in known => ports[i] = 2000}

\* The states the agents show to the run's DeploymentGet calls.
GotsFor(node_ids) == {[i \in DOMAIN node_ids |-> s] : s \in GotStates}

NetIdle ==
    /\ nd = NetAbsent
    /\ netConfig = newNetworkConfig(<<>>, <<>>)
    /\ netCalls = <<>>
    /\ netRun = [op |-> "none", err |-> ""]
    /\ netRuns = 0
    /\ netKeys = 0
    /\ netContracts = FirstContract
    /\ netFaults = 0

NetInit == NetIdle

\* A create run: the resource has no id yet.
NetCreate ==
    /\ nd.id = ""
    /\ netRuns < MaxNetRuns
    /\ \E node_ids \in NetNodeLists \cup {LongNodeList} :
         \E ports \in PortsFor(node_ids, {}), gots \in GotsFor(node_ids) :
            LET r == resourceNetworkCreate(node_ids, NetIPRange, ports, gots, netContracts) IN
               /\ nd' = r.d
               /\ netConfig' = r.config
               /\ netCalls' = r.calls
               /\ netRun' = [op |-> "create", err |-> r.err]
               /\ netKeys' = r.keys
               /\ netContracts' = r.contracts
    /\ netRuns' = netRuns + 1
    /\ UNCHANGED netFaults
    /\ UNCHANGED notNet

\* An update run: the resource has an id.
NetUpdate ==
    /\ nd.id # ""
    /\ netRuns < MaxNetRuns
    /\ \E node_ids \in NetNodeLists :
         \E ports \in PortsFor(node_ids, {nd.deployment_info[i].node_id :
                                             i \in DOMAIN nd.deployment_info}),
            gots \in GotsFor(node_ids) :
            LET r == resourceNetworkUpdate(nd, node_ids, NetIPRange, ports, gots,
                                           netKeys, netContracts) IN
               /\ nd' = r.d
               /\ netConfig' = r.config
               /\ netCalls' = r.calls
               /\ netRun' = [op |-> "update", err |-> r.err]
               /\ netKeys' = r.keys
               /\ netContracts' = r.contracts
    /\ netRuns' = netRuns + 1
    /\ UNCHANGED netFaults
    /\ UNCHANGED notNet

NetNext ==
    \/ NetCreate
    \/ NetUpdate

(***************************************************************************)
(* The network runs step by step, with remote calls that fail              *)
(*                                                                         *)
(* SpecNet follows the data of runs whose remote calls all succeed.  Here  *)
(* a run is the sequence of its steps: the validation and the signing of   *)
(* each deployment, the ledger calls and the agent calls, each with what   *)
(* the code does when the step returns an error.  One step of a run may    *)
(* fail.  The hash and the connections (ChallengeHash, NewSubstrate,       *)
(* NewClient) are taken to succeed.                                        *)
(***************************************************************************)
MaxCallRuns == 2        \* runs in one behaviour of SpecNetCalls
MaxNetFaults == 1       \* failing remote calls in one behaviour

\* One step of a run.  `fails` is what the code does with the step's error:
\* "panic", "ignored" (the result is dropped), "printed" (the error is
\* printed and the run goes on), or "never" for a local step that has no
\* error on the deployments generateDeployments builds.
NetStep(call, node, contract, dl, fails) ==
    [call |-> call, node |-> node, contract |-> contract, dl |-> dl,
     ok |-> TRUE, fails |-> fails]

\* deployment.Valid() and deployment.Sign(...) on the deployment dl.
SignedSteps(node, dl) ==
    << NetStep("Valid", node, dl.ContractID, <<[dl EXCEPT !.SignedBy = <<>>]>>, "never"),
       NetStep("Sign", node, dl.ContractID,
               <<[dl EXCEPT !.SignedBy = <<UserInfo.TwinID>>]>>, "never") >>

\* generateDeployments validates and signs every deployment it builds
\* (lines 370-376).
GenerateSteps(cfg) ==
    LET dls == generateDeployments(cfg).Deployments IN
    Flatten([k \in DOMAIN dls |-> SignedSteps(cfg.NodeIDs[k], dls[k])])

\* A ledger or agent call of the run as a step.
AsStep(c, fails) == NetStep(c.call, c.node, c.contract, c.dl, fails)

\* sub.GetNode(uint32(node)): panic(err).
GetNodeStep(node) == NetStep("GetNode", node, 0, <<>>, "panic")

\* The steps of resourceNetworkCreate for one deployment, calls being its
\* three calls (lines 465-490): every error is a panic.
NodeCreateSteps(calls) ==
    << GetNodeStep(calls[1].node),
       AsStep(calls[1], "panic"),
       AsStep(calls[2], "panic"),
       AsStep(calls[3], "panic") >>

\* A mutation of the steps of update: the deployment is handed to the agent
\* before the ledger is asked for the contract.
NodeUpdateStepsSubmitFirst(calls) ==
    LET dl == calls[2].dl[1]
        unbound == [dl EXCEPT !.ContractID = 0]
    IN  SignedSteps(calls[1].node, unbound)
        \o << AsStep([calls[2] EXCEPT !.dl = <<unbound>>], "panic"),
              AsStep(calls[1], "panic"),
              GetNodeStep(calls[1].node),
              AsStep(calls[3], "panic") >>

\* The steps of resourceNetworkUpdate for one deployment (lines 659-720):
\* the deployment with its new version is validated and signed, the ledger
\* gives the contract, the deployment gets its ContractID and goes to the
\* agent.  Every error is a panic.
NodeUpdateSteps(calls) ==
    LET dl == calls[2].dl[1]
        unbound == [dl EXCEPT !.ContractID = 0]
    IN  SignedSteps(calls[1].node, unbound)
        \o << AsStep(calls[1], "panic"),
              GetNodeStep(calls[1].node),
              AsStep(calls[2], "panic"),
              AsStep(calls[3], "panic") >>

\* A mutation of the removal: the node of every recorded entry is removed.
RemovedNodesAll(stateInfo, node_ids) == stateInfo

\* The recorded entries whose node is not declared any more (line 726).
RemovedNodes(stateInfo, node_ids) ==
    SelectSeq(stateInfo, LAMBDA info : ~isInInt(node_ids, info.node_id))

\* The steps of resourceNetworkUpdate for one removed entry (lines 727-741):
\* the results of CancelContract and DeploymentDelete are dropped.
NodeRemoveSteps(info) ==
    << GetNodeStep(info.node_id),
       AsStep(CancelCalls(info)[1], "ignored"),
       AsStep(CancelCalls(info)[2], "ignored") >>

\* The steps of resourceNetworkDelete for one recorded entry (lines 768-787):
\* a failed CancelContract panics, a failed DeploymentDelete is printed.
NodeDeleteSteps(info) ==
    << GetNodeStep(info.node_id),
       AsStep(CancelCalls(info)[1], "panic"),
       AsStep(CancelCalls(info)[2], "printed") >>

\* The i-th group of k calls.
Group(calls, i, k) == SubSeq(calls, (i - 1) * k + 1, i * k)

\* The steps of a create run whose calls all succeed, r being what
\* resourceNetworkCreate gives.
CreateTrail(r, node_ids) ==
    GenerateSteps(r.config)
    \o Flatten([idx \in DOMAIN node_ids |-> NodeCreateSteps(Group(r.calls, idx, 3))])

\* The steps of an update run whose calls all succeed, r being what
\* resourceNetworkUpdate gives for the recorded stateInfo.
UpdateTrail(r, node_ids, stateInfo) ==
    LET removed == RemovedNodes(stateInfo, node_ids) IN
    GenerateSteps(r.config)
    \o Flatten([idx \in DOMAIN node_ids |-> NodeUpdateSteps(Group(r.calls, idx, 3))])
    \o Flatten([k \in DOMAIN removed |-> NodeRemoveSteps(removed[k])])

\* The steps of a delete run whose calls all succeed.
DeleteTrail(stateInfo) ==
    Flatten([k \in DOMAIN stateInfo |-> NodeDeleteSteps(stateInfo[k])])

\* The steps that may fail, and 0 for a run without a failing step.
FaultsOf(trail) == {0} \cup {k \in DOMAIN trail : trail[k].fails # "never"}

\* A mutation of the run: a panic does not end it.
StepsRunRunsOn(trail, p) ==
    IF p = 0 THEN trail ELSE [trail EXCEPT ![p].ok = FALSE]

\* The steps the run takes when step p fails: a panic ends the run at the
\* step, any other failure leaves the rest of the run as it is.
StepsRun(trail, p) ==
    IF p = 0 THEN trail
    ELSE IF trail[p].fails = "panic"
    THEN [k \in 1..p |-> IF k = p THEN [trail[k] EXCEPT !.ok = FALSE] ELSE trail[k]]
    ELSE [trail EXCEPT ![p].ok = FALSE]

\* Whether the run ends in a panic, and at which call.
Panics(trail, p) == p # 0 /\ trail[p].fails = "panic"
PanicAt(trail, p) == IF Panics(trail, p) THEN trail[p].call ELSE ""

\* The ledger and agent calls among the steps, as netCalls lists them.
RemoteCallNames ==
    {"CreateContract", "UpdateContract", "CancelContract",
     "DeploymentDeploy", "DeploymentUpdate", "DeploymentDelete", "DeploymentGet"}
CallsIn(steps) ==
    LET made == SelectSeq(steps, LAMBDA st : st.call \in RemoteCallNames) IN
    [k \in DOMAIN made |->
        NetCall(made[k].call, made[k].node, made[k].contract, made[k].dl,
                IF made[k].call = "DeploymentGet" THEN <<StateOk>> ELSE <<>>)]

\* The contracts the ledger has given out after the steps.
CreatedIn(steps) ==
    Cardinality({k \in DOMAIN steps : steps[k].call = "CreateContract" /\ steps[k].ok})

\* Every agent shows the ok state and every new node gets the port 2000.
OkGots(node_ids) == [i \in DOMAIN node_ids |-> StateOk]
SamePorts(node_ids) == [i \in DOMAIN node_ids |-> 2000]

\* The record of a run: its operation, the declared node list, the call it
\* panicked at, its steps.
NetRunOf(op, node_ids, trail, p) ==
    [op |-> op, nodes |-> node_ids, err |-> PanicAt(trail, p),
     steps |-> StepsRun(trail, p)]

\* What a run leaves: the resource data dnew when it returns, the prior data
\* when it panics (the provider process is gone before anything is saved).
Leaves(op, node_ids, trail, p, dnew, cfg, keys) ==
    /\ netFaults + (IF p = 0 THEN 0 ELSE 1) <= MaxNetFaults
    /\ netRuns < MaxCallRuns
    /\ nd' = IF Panics(trail, p) THEN nd ELSE dnew
    /\ netConfig' = cfg
    /\ netRun' = NetRunOf(op, node_ids, trail, p)
    /\ netCalls' = CallsIn(netRun'.steps)
    /\ netKeys' = keys
    /\ netContracts' = netContracts + CreatedIn(netRun'.steps)
    /\ netFaults' = netFaults + (IF p = 0 THEN 0 ELSE 1)
    /\ netRuns' = netRuns + 1
    /\ UNCHANGED notNet

\* resourceNetworkCreate, step by step.
CallsCreate ==
    /\ nd.id = ""
    /\ \E node_ids \in NetNodeLists :
         LET r == resourceNetworkCreate(node_ids, NetIPRange, SamePorts(node_ids),
                                        OkGots(node_ids), netContracts)
             trail == CreateTrail(r, node_ids)
         IN  \E p \in FaultsOf(trail) :
                Leaves("create", node_ids, trail, p, r.d, r.config, r.keys)

\* resourceNetworkUpdate, step by step.
CallsUpdate ==
    /\ nd.id # ""
    /\ \E node_ids \in NetNodeLists :
         LET r == resourceNetworkUpdate(nd, node_ids, NetIPRange, SamePorts(node_ids),
                                        OkGots(node_ids), netKeys, netContracts)
             trail == UpdateTrail(r, node_ids, loadStaet(nd))
         IN  \E p \in FaultsOf(trail) :
                Leaves("update", node_ids, trail, p, r.d, r.config, r.keys)

\* resourceNetworkDelete, step by step: it returns no error, and the resource
\* is gone from the state when it returns.
CallsDelete ==
    /\ nd.id # ""
    /\ LET trail == DeleteTrail(loadStaet(nd)) IN
       \E p \in FaultsOf(trail) :
          Leaves("delete", <<>>, trail, p, NetAbsent, netConfig, netKeys)

NetCallsNext ==
    \/ CallsCreate
    \/ CallsUpdate
    \/ CallsDelete

(***************************************************************************)
(* getNodeFreeWGPort                                                       *)
(*                                                                         *)
(* The function fetches the node's reserved WireGuard ports and samples    *)
(* rand.Intn(6000) + 2000 until the sample is not among them.              *)
(***************************************************************************)
PortBase == 2000        \* rand.Intn(6000) + 2000
PortSpan == 6000        \* rand.Intn(6000)
MaxDraws == 4           \* values of rand.Intn the model samples

\* The values rand.Intn(PortSpan) gives in the model: both ends of its range
\* and some between.
Draws == {0, PortSpan - 1} \cup {k * 1000 : k \in 1..(MaxDraws - 2)}
SamplePorts == {n + PortBase : n \in Draws}

isInNothing(l, i) == FALSE

\* isIn(l, i): whether the uint16 is an element of the slice.
isIn(l, i) == \E k \in DOMAIN l : l[k] = i

\* The elements of a set of ports as a slice, in increasing order.
RECURSIVE PortList(_)
PortList(S) ==
    IF S = {} THEN <<>>
    ELSE LET least == CHOOSE x \in S : \A y \in S : x <= y
         IN  <<least>> \o PortList(S \ {least})

\* The reserved lists NetworkListWGPorts may give: some of the ports the
\* model samples but not all of them, with or without ports next to the
\* range; and the list of every port of the range.  A failed call leaves
\* the empty list.
AllPorts == [i \in 1..PortSpan |-> PortBase + (i - 1)]
ReservedLists ==
    {PortList(S \cup X) : S \in (SUBSET SamplePorts) \ {SamplePorts},
                          X \in {{}, {PortBase - 1, PortBase + PortSpan}}}
    \cup {AllPorts}

PortIdle ==
    /\ ppc = "idle"
    /\ freeports = <<>>
    /\ port = 0

PortInit == PortIdle

\* NewClient, NewSubstrate or GetNode fails: panic(err) (lines 75-87).
PortPanic ==
    /\ ppc = "idle"
    /\ ppc' = "panicked"
    /\ UNCHANGED <<freeports, port>>
    /\ UNCHANGED notPort

\* The list is fetched and the first sample drawn (lines 91-93).
PortFetch ==
    /\ ppc = "idle"
    /\ freeports' \in ReservedLists
    /\ \E n \in Draws : port' = n + PortBase
    /\ ppc' = "loop"
    /\ UNCHANGED notPort

\* for isIn(freeports, uint16(p)) { p = uint(rand.Intn(6000) + 2000) }
PortResample(n) ==
    /\ ppc = "loop"
    /\ isIn(freeports, port % 65536)
    /\ port' = n + PortBase
    /\ UNCHANGED <<ppc, freeports>>
    /\ UNCHANGED notPort

\* The loop condition fails: return int(p).
PortReturn ==
    /\ ppc = "loop"
    /\ ~isIn(freeports, port % 65536)
    /\ ppc' = "returned"
    /\ UNCHANGED <<freeports, port>>
    /\ UNCHANGED notPort

PortSample == \E n \in Draws : PortResample(n)

PortNext ==
    \/ PortPanic
    \/ PortFetch
    \/ PortSample
    \/ PortReturn

(***************************************************************************)
(* Runs that allocate a port on the same node                              *)
(*                                                                         *)
(* Each run is a provider process of its own that adds the node to a       *)
(* network: it calls getNodeFreeWGPort (lines 441, 621), which reads the   *)
(* node's reserved ports and samples against the list it was given, and    *)
(* later hands the node a deployment that listens on the port.  The node   *)
(* reserves the port when it gets the deployment.  Nothing in the provider *)
(* orders the steps of different runs.                                     *)
(***************************************************************************)
MaxRacers == 2          \* runs that target the node

Racers == 1..MaxRacers

RaceIdle ==
    /\ runPc = [r \in Racers |-> "idle"]
    /\ runFreeports = [r \in Racers |-> <<>>]
    /\ runPort = [r \in Racers |-> 0]
    /\ nodePorts = {}

\* The node has reserved some of the ports the model samples, not all.
RaceInit ==
    /\ runPc = [r \in Racers |-> "idle"]
    /\ runFreeports = [r \in Racers |-> <<>>]
    /\ runPort = [r \in Racers |-> 0]
    /\ nodePorts \in (SUBSET SamplePorts) \ {SamplePorts}

\* node.NetworkListWGPorts(ctx) and the first sample (lines 91-93).
RaceFetch(r) ==
    /\ runPc[r] = "idle"
    /\ runFreeports' = [runFreeports EXCEPT ![r] = PortList(nodePorts)]
    /\ \E n \in Draws : runPort' = [runPort EXCEPT ![r] = n + PortBase]
    /\ runPc' = [runPc EXCEPT ![r] = "loop"]
    /\ UNCHANGED nodePorts
    /\ UNCHANGED notRace

\* for isIn(freeports, uint16(p)) { p = uint(rand.Intn(6000) + 2000) }
RaceResample(r) ==
    /\ runPc[r] = "loop"
    /\ isIn(runFreeports[r], runPort[r] % 65536)
    /\ \E n \in Draws : runPort' = [runPort EXCEPT ![r] = n + PortBase]
    /\ UNCHANGED <<runPc, runFreeports, nodePorts>>
    /\ UNCHANGED notRace

\* return int(p): the run holds the port as the node's WGPort.
RaceReturn(r) ==
    /\ runPc[r] = "loop"
    /\ ~isIn(runFreeports[r], runPort[r] % 65536)
    /\ runPc' = [runPc EXCEPT ![r] = "chosen"]
    /\ UNCHANGED <<runFreeports, runPort, nodePorts>>
    /\ UNCHANGED notRace

\* node_client.DeploymentDeploy(ctx, deployment) (lines 483, 705): the node
\* gets the deployment and reserves its listen port.
RaceDeploy(r) ==
    /\ runPc[r] = "chosen"
    /\ runPc' = [runPc EXCEPT ![r] = "deployed"]
    /\ nodePorts' = nodePorts \cup {runPort[r]}
    /\ UNCHANGED <<runFreeports, runPort>>
    /\ UNCHANGED notRace

RaceNext ==
    \E r \in Racers :
       \/ RaceFetch(r)
       \/ RaceResample(r)
       \/ RaceReturn(r)
       \/ RaceDeploy(r)

(***************************************************************************)
(* Specifications                                                          *)
(***************************************************************************)
InitWait   == WaitInit /\ DiffIdle /\ IPIdle /\ DeployIdle /\ GenIdle /\ NetIdle /\ PortIdle /\ RaceIdle
InitDiff   == DiffInit /\ WaitIdle /\ IPIdle /\ DeployIdle /\ GenIdle /\ NetIdle /\ PortIdle /\ RaceIdle
InitIP     == IPInit /\ WaitIdle /\ DiffIdle /\ DeployIdle /\ GenIdle /\ NetIdle /\ PortIdle /\ RaceIdle
InitDeploy == DeployInit /\ WaitIdle /\ DiffIdle /\ IPIdle /\ GenIdle /\ NetIdle /\ PortIdle /\ RaceIdle
InitGen    == GenInit /\ WaitIdle /\ DiffIdle /\ IPIdle /\ DeployIdle /\ NetIdle /\ PortIdle /\ RaceIdle
InitNet    == NetInit /\ WaitIdle /\ DiffIdle /\ IPIdle /\ DeployIdle /\ GenIdle /\ PortIdle /\ RaceIdle
InitPort   == PortInit /\ WaitIdle /\ DiffIdle /\ IPIdle /\ DeployIdle /\ GenIdle /\ NetIdle /\ RaceIdle
InitRace   == RaceInit /\ WaitIdle /\ DiffIdle /\ IPIdle /\ DeployIdle /\ GenIdle /\ NetIdle /\ PortIdle

SpecWait   == InitWait /\ [][WaitNext]_vars
SpecDiff   == InitDiff /\ [][DiffNext]_vars
SpecIP     == InitIP /\ [][IPNext]_vars
SpecDeploy == InitDeploy /\ [][DeployNext]_vars
SpecGen    == InitGen /\ [][GenNext]_vars
SpecNet    == InitNet /\ [][NetNext]_vars
SpecNetCalls == InitNet /\ [][NetCallsNext]_vars
SpecPort   == InitPort /\ [][PortNext]_vars
SpecRace   == InitRace /\ [][RaceNext]_vars
\* The runs of either resource, step by step: a behaviour is the runs of the
\* deployment resource or the runs of the network resource.
DeploymentRuns == netRuns = 0 /\ DeployNext
NetworkRuns == runs = 0 /\ NetCallsNext
RunsNext == DeploymentRuns \/ NetworkRuns
InitRuns == DeployInit /\ NetInit /\ WaitIdle /\ DiffIdle /\ IPIdle /\ GenIdle /\ PortIdle /\ RaceIdle
SpecRuns == InitRuns /\ [][RunsNext]_vars
\* The sampling is fair: a value rand.Intn can give is given again and again
\* while the loop keeps sampling, and the function runs on when it can.
SpecPortFair ==
    /\ SpecPort
    /\ WF_vars(PortReturn)
    /\ \A n \in Draws : SF_vars(PortResample(n))

(***************************************************************************)
(* Properties of waitDeployment (checked under SpecWait)                   *)
(***************************************************************************)
\* The 1-based position of the first workload whose state is neither "" nor ok.
FirstFailed(wls) ==
    CHOOSE i \in DOMAIN wls :
        /\ wls[i].state \notin {"", "ok"}
        /\ \A j \in 1..(i - 1) : wls[j].state \in {"", "ok"}

\* C1: waitDeployment returns nil only after a fetch in which every workload
\* reports state ok; it never returns nil while a workload of the fetched
\* deployment is still pending.
C1_NilOnlyWhenAllOk ==
    (wpc = "done" /\ werr.kind = "nil") =>
        /\ Len(fetched) = Len(remote)
        /\ \A i \in DOMAIN fetched : fetched[i].state = "ok"
        /\ \A i \in DOMAIN remote : remote[i].state # ""

\* Witness of C1: nil is returned for several workloads after an earlier
\* iteration of the loop.
C1_Witness ==
    /\ wpc = "done"
    /\ werr.kind = "nil"
    /\ Len(fetched) >= 2
    /\ elapsed > 2 * FetchStep

\* C2: the iteration whose fetch shows a workload in a state other than "" and
\* ok returns, in that iteration, the workload-failed error with the index of
\* the first such workload, the deployment id and the remote error text, also
\* when workloads at lower indexes are pending.
C2_FailsInSameIteration ==
    [][ ( /\ elapsed' > elapsed
          /\ werr'.kind # "fetch_error"
          /\ \E i \in DOMAIN remote : remote[i].state \notin {"", "ok"} )
        => ( /\ wpc' = "done"
             /\ werr' = [kind |-> "workload_failed",
                         idx |-> FirstFailed(remote) - 1,
                         id |-> wctx.id,
                         text |-> remote[FirstFailed(remote)].error] ) ]_vars

\* Witness of C2: a workload-failed error for a workload behind a pending
\* one, returned before the budget is spent.
C2_Witness ==
    /\ wpc = "done"
    /\ werr.kind = "workload_failed"
    /\ werr.idx >= 1
    /\ fetched[1].state = ""
    /\ elapsed < WaitBudget

\* C3: called by create or update, with a workload pending and none failed up
\* to the end and every fetch answered, waitDeployment ends with the timeout
\* error.
C3_TimeoutAsInvoked ==
    ( /\ wpc = "done"
      /\ wctx.caller \in {"create", "update"}
      /\ \E i \in DOMAIN remote : remote[i].state = ""
      /\ \A i \in DOMAIN remote : remote[i].state \in {"", "ok"}
      /\ werr.text # "transport" )
    => werr.kind = "timedout"

(***************************************************************************)
(* Properties of the HasChanged functions (checked under SpecDiff)         *)
(***************************************************************************)
\* The result the claims describe: the first prior record agreeing with the
\* declared one on the key fields, and changed iff a tracked field differs.
DescribedResult(rec, olds, key, tracked) ==
    LET same == {i \in DOMAIN olds : \A k \in key : olds[i][k] = rec[k]} IN
    IF same = {} THEN [changed |-> FALSE, old |-> <<>>]
    ELSE LET f == CHOOSE i \in same : \A j \in same : i <= j
         IN  [changed |-> \E fld \in tracked : olds[f][fld] # rec[fld],
              old |-> <<olds[f]>>]

DiskTracked == {"size", "description"}
ZdbTracked  == {"size", "mode", "description", "password"}
VmTracked   == {"cpu", "memory", "entrypoint", "mounts", "env_vars"}

\* C4: diskHasChanged and zdbHasChanged return (false, none) when no prior
\* record has the declared name, else the first prior record of that name with
\* changed = true iff a tracked field differs.
C4_DiskZdbHasChanged ==
    /\ (dkind = "disk" /\ dres # <<>>) =>
          dres[1] = DescribedResult(declared, oldList, {"name"}, DiskTracked)
    /\ (dkind = "zdb" /\ dres # <<>>) =>
          dres[1] = DescribedResult(declared, oldList, {"name"}, ZdbTracked)

\* Witness of C4: a changed storage node whose match is the second prior record.
C4_Witness ==
    /\ dkind = "zdb"
    /\ dres # <<>>
    /\ Len(oldList) = 2
    /\ oldList[1].name # declared.name
    /\ dres[1].changed
    /\ dres[1].old = <<oldList[2]>>

\* C5: vmHasChanged returns (false, none) when no prior record has the
\* declared name and flist, else that record with changed = true iff one of
\* cpu, memory, entrypoint, mounts, env_vars differs.
C5_VmHasChanged ==
    (dkind = "vm" /\ dres # <<>>) =>
        dres[1] = DescribedResult(declared, oldList, {"name", "flist"}, VmTracked)

(***************************************************************************)
(* Properties of getFreeIP (checked under SpecIP)                          *)
(***************************************************************************)
\* The address of host id h in the range being allocated from.
Addr(h) == DottedQuad(<<ipRange.ip[1], ipRange.ip[2], ipRange.ip[3], h>>)

\* C8: getFreeIP returns the address of the smallest host id in 2..254 not in
\* the used list, never host id 0, 1 or 255 and never a used address; the
\* results of repeated calls are pairwise distinct; the error is returned
\* exactly when all of 2..254 are used, which from a used list without
\* addresses of the range is after 253 results.
C8_GetFreeIP ==
    freeIP # <<>> =>
        LET n == Len(freeIP)
            r == freeIP[n]
            given == IF r.err = "" THEN n ELSE n - 1
            before == IF r.err = "" THEN SubSeq(usedIPs, 1, Len(usedIPs) - 1)
                      ELSE usedIPs
            initial == SubSeq(usedIPs, 1, Len(usedIPs) - given)
            freeHosts == {h \in 2..254 : Addr(h) \notin Range(before)}
        IN  /\ (r.err # "") <=> (freeHosts = {})
            /\ r.err = "" =>
                  /\ \E h \in freeHosts : r.ip = Addr(h) /\ \A g \in freeHosts : h <= g
                  /\ r.ip \notin Range(before)
                  /\ r.ip \notin {Addr(0), Addr(1), Addr(255)}
            /\ \A i, j \in 1..given : i # j => freeIP[i].ip # freeIP[j].ip
            /\ (\A h \in 2..254 : Addr(h) \notin Range(initial)) =>
                  ((r.err # "") <=> (n = 254))

\* Witness of C8: 253 results, then the error.
C8_Witness ==
    /\ Len(freeIP) = 254
    /\ freeIP[254].err # ""
    /\ Cardinality({freeIP[i].ip : i \in 1..253}) = 253

(***************************************************************************)
(* Properties of the deployment runs (checked under SpecDeploy)            *)
(***************************************************************************)
\* The step is a run that ended without error.
SuccessfulRun == runs' = runs + 1 /\ lastRun'.err = ""

\* The version the claims describe for record rec against the prior list.
DescribedVersion(rec, olds, key, tracked) ==
    LET res == DescribedResult(rec, olds, key, tracked) IN
    IF res.old = <<>> THEN 0
    ELSE IF res.changed THEN res.old[1].version + 1
    ELSE res.old[1].version

\* C6: an update run records, for every declared disk, storage node and
\* machine, version 0 without a prior record, the prior version when no
\* tracked field changed, and the prior version + 1 when one changed.
C6_UpdateVersions ==
    [][ (SuccessfulRun /\ lastRun'.op = "update") =>
          /\ \A i \in DOMAIN d'.disks :
                d'.disks[i].version =
                    DescribedVersion(d'.disks[i], d.disks, {"name"}, DiskTracked)
          /\ \A i \in DOMAIN d'.zdbs :
                d'.zdbs[i].version =
                    DescribedVersion(d'.zdbs[i], d.zdbs, {"name"}, ZdbTracked)
          /\ \A i \in DOMAIN d'.vms :
                d'.vms[i].version =
                    DescribedVersion(d'.vms[i], d.vms, {"name", "flist"}, VmTracked)
      ]_vars

\* No record of the new list has a lower version than the record of the same
\* name in the old list.
NotLowered(olds, news) ==
    \A i \in DOMAIN olds, j \in DOMAIN news :
        olds[i].name = news[j].name => olds[i].version <= news[j].version

\* C7: over create and update runs, the version recorded for a resource name
\* that stays declared never decreases.
C7_VersionNeverDecreases ==
    [][ SuccessfulRun =>
          /\ NotLowered(d.disks, d'.disks)
          /\ NotLowered(d.zdbs, d'.zdbs)
          /\ NotLowered(d.vms, d'.vms) ]_vars

\* The machine workloads of a manifest.
Machines(dl) == SelectSeq(dl.Workloads, LAMBDA w : w.Type = "zmachine")

\* C9: the machines of each submitted manifest have pairwise distinct IPs, and
\* a machine retained by an update is submitted with the IP and the network
\* name it was given at creation.
C9_StableDistinctIPs ==
    [][ SuccessfulRun =>
          LET ms == Machines(manifest') IN
          /\ \A i, j \in DOMAIN ms :
                i # j => ms[i].Data.Network.Interfaces[1].IP
                            # ms[j].Data.Network.Interfaces[1].IP
          /\ lastRun'.op = "update" =>
                \A i \in DOMAIN ms, j \in DOMAIN d.vms :
                    ms[i].Name = d.vms[j].name =>
                        /\ ms[i].Data.Network.Interfaces[1].IP = ParseIP(d.vms[j].ip)
                        /\ ms[i].Data.Network.Interfaces[1].Network = d.network_name
      ]_vars

(***************************************************************************)
(* Properties of generateDeployments (checked under SpecGen)               *)
(***************************************************************************)
\* The peer list of the k-th generated deployment.
PeersAt(k) == deploymentInfo[1].Deployments[k].Workloads[1].Data.Peers

\* C10: for two distinct nodes A and B of the node list, A's peer list holds
\* an entry with B's subnet, B's public key and the endpoint of B with B's
\* port (and B's list one for A); no peer list holds the node's own key.
C10_FullMesh ==
    deploymentInfo # <<>> =>
        \A a \in DOMAIN nc.NodeIDs :
            LET A == nc.NodeIDs[a] IN
            /\ \A b \in DOMAIN nc.NodeIDs :
                  LET B == nc.NodeIDs[b] IN
                  A # B =>
                     \E p \in DOMAIN PeersAt(a) :
                        /\ PeersAt(a)[p].Subnet = nc.IPs[B]
                        /\ PeersAt(a)[p].WGPublicKey = KeyString(PublicKey(nc.Keys[B]))
                        /\ PeersAt(a)[p].Endpoint =
                              "[" \o NodeIps(B) \o "]:" \o ToString(nc.WGPort[B])
            /\ \A p \in DOMAIN PeersAt(a) :
                  PeersAt(a)[p].WGPublicKey # KeyString(PublicKey(nc.Keys[A]))

\* Witness of C10: deployments generated for three distinct nodes.
C10_Witness ==
    /\ deploymentInfo # <<>>
    /\ Len(nc.NodeIDs) = 3
    /\ Cardinality(Range(nc.NodeIDs)) = 3
    /\ Len(PeersAt(2)) = 2

\* The peer list of the k-th generated deployment, as a set of entries.
PeerSetAt(k) == Range(PeersAt(k))

\* The overlay address of a subnet a.b.c.d/m: 100.64.b.c/32.
Overlay(subnet) == [ip |-> <<100, 64, subnet.ip[2], subnet.ip[3]>>, mask |-> 32]

\* C12: the allowed IPs of the peer entry for node P are exactly P's subnet
\* and P's overlay address when P is not the public node, and exactly those
\* two, the external subnet and its overlay address when P is the public node.
C12_AllowedIPs ==
    deploymentInfo # <<>> =>
        \A k \in DOMAIN nc.NodeIDs : \A e \in PeerSetAt(k) :
            \A P \in Range(nc.NodeIDs) :
                e.WGPublicKey = KeyString(PublicKey(nc.Keys[P])) =>
                    Range(e.AllowedIPs) =
                        IF P = nc.PublicNodeID
                        THEN {nc.IPs[P], Overlay(nc.IPs[P]),
                              nc.ExternalNodeIP, Overlay(nc.ExternalNodeIP)}
                        ELSE {nc.IPs[P], Overlay(nc.IPs[P])}

\* Witness of C12: node 2 has a peer entry for the public node 1 and one for
\* node 3.
C12_Witness ==
    /\ deploymentInfo # <<>>
    /\ nc.NodeIDs = <<1, 2, 3>>
    /\ Len(PeersAt(2)) = 2
    /\ Len(PeersAt(2)[1].AllowedIPs) = 4
    /\ Len(PeersAt(2)[2].AllowedIPs) = 2

\* The entries of the k-th peer list that are for the external access point.
ExternalEntries(k) ==
    {p \in DOMAIN PeersAt(k) :
        PeersAt(k)[p].WGPublicKey = KeyString(PublicKey(nc.ExternalNodeKey))}

\* C13: the peer list of the public node, and of no other node, holds one
\* entry more, for the external access point: the external subnet, the public
\* key of the external key and no endpoint.
C13_ExternalPeer ==
    deploymentInfo # <<>> =>
        \A k \in DOMAIN nc.NodeIDs :
            LET others == {j \in DOMAIN nc.NodeIDs : nc.NodeIDs[j] # nc.NodeIDs[k]} IN
            IF nc.NodeIDs[k] = nc.PublicNodeID
            THEN /\ Cardinality(ExternalEntries(k)) = 1
                 /\ Len(PeersAt(k)) = Cardinality(others) + 1
                 /\ \A p \in ExternalEntries(k) :
                       /\ PeersAt(k)[p].Subnet = nc.ExternalNodeIP
                       /\ PeersAt(k)[p].Endpoint = ""
            ELSE /\ ExternalEntries(k) = {}
                 /\ Len(PeersAt(k)) = Cardinality(others)
                 /\ \A p \in DOMAIN PeersAt(k) : PeersAt(k)[p].Subnet # nc.ExternalNodeIP

\* Witness of C13: the public node and another node, each with its list.
C13_Witness ==
    /\ deploymentInfo # <<>>
    /\ nc.NodeIDs = <<2, 1>>
    /\ Len(PeersAt(1)) = 1
    /\ Len(PeersAt(2)) = 2
    /\ PeersAt(2)[2].Endpoint = ""

\* C14: generateDeployments returns an access configuration iff the public
\* node id is in the node list; without the public node the call still
\* returns its deployments and the configuration is empty; with it, the
\* result holds one configuration, whatever the number of nodes.
C14_AccessConfigIffPublicNode ==
    deploymentInfo # <<>> =>
        LET present == \E k \in DOMAIN nc.NodeIDs : nc.NodeIDs[k] = nc.PublicNodeID
            wg == deploymentInfo[1].WGAccessConfiguration
        IN  /\ present <=> (wg # <<>>)
            /\ present => Len(wg) = 1
            /\ ~present => /\ wg = <<>>
                           /\ Len(deploymentInfo[1].Deployments) = Len(nc.NodeIDs)

\* Witness of C14: a run without the public node that has deployments and no
\* configuration.
C14_Witness ==
    /\ deploymentInfo # <<>>
    /\ nc.NodeIDs = <<2, 3>>
    /\ deploymentInfo[1].WGAccessConfiguration = <<>>
    /\ Len(deploymentInfo[1].Deployments) = 2

\* C15: a generated access configuration has the external access subnet
\* (nc.ExternalNodeIP) among its allowed IPs, the public key of the public
\* node's key as peer key and the public node's listen port in its endpoint.
C15_AccessConfigContent ==
    (deploymentInfo # <<>> /\ deploymentInfo[1].WGAccessConfiguration # <<>>) =>
        LET wg == deploymentInfo[1].WGAccessConfiguration[1] IN
        /\ IPNetString(nc.ExternalNodeIP) \in Range(wg.AllowedIPs)
        /\ wg.PublicKey = KeyString(PublicKey(nc.Keys[nc.PublicNodeID]))
        /\ wg.Endpoint = "185.206.122.31:" \o ToString(nc.WGPort[nc.PublicNodeID])

\* C19: an update run that follows a successful run submits a deployment
\* version exactly 1 greater than the version that run submitted, and records
\* it, so that consecutive updates never submit the same version.
C19_UpdateBumpsVersion ==
    [][ ( /\ SuccessfulRun
          /\ lastRun'.op = "update"
          /\ lastRun.op # "none"
          /\ lastRun.err = "" )
        => ( /\ manifest'.Version = manifest.Version + 1
             /\ d'.version = manifest'.Version ) ]_vars

\* ---- claims about network create and update runs (SpecNet) ----
\* The calls of the last run that handed a deployment to a node, in order.
Submitted == SelectSeq(netCalls, LAMBDA c : c.dl # <<>>)
\* The peer list of the network workload in the k-th submitted deployment.
SubmittedPeers(k) == Submitted[k].dl[1].Workloads[1].Data.Peers
\* The position of `node` in the declared list of the last run.
DeclaredAt(node) == CHOOSE k \in DOMAIN nd.nodes : nd.nodes[k] = node

\* C11 (as stated): for the node set {1, 2} the two deployments' network
\* workloads each contain exactly one peer entry, and after an update that
\* removes node 2, node 1's regenerated deployment has an empty peer list.
C11_OnePeerThenEmpty ==
    [][ /\ (netRuns' = netRuns + 1 /\ Range(nd'.nodes) = {1, 2} /\ Len(nd'.nodes) = 2)
           => ( /\ Len(Submitted') = 2
                /\ \A k \in 1..2 : Len(SubmittedPeers(k)') = 1 )
        /\ (netRuns' = netRuns + 1 /\ Range(nd.nodes) = {1, 2} /\ nd'.nodes = <<1>>)
           => SubmittedPeers(1)' = <<>> ]_vars

\* C11 (amended): for the node set {1, 2} each of the two deployments names
\* the other node in exactly one peer entry, and node 1, the public node,
\* carries the external access entry after it; after an update that removes
\* node 2, node 1's regenerated deployment holds the external access entry
\* and nothing else.
C11_OneNodePeerPlusExternal ==
    [][ /\ (netRuns' = netRuns + 1 /\ Range(nd'.nodes) = {1, 2} /\ Len(nd'.nodes) = 2)
           => ( /\ Len(Submitted') = 2
                /\ SubmittedPeers(DeclaredAt(1))' =
                      <<PeerEntry(netConfig', 2), ExternalPeer(netConfig')>>
                /\ SubmittedPeers(DeclaredAt(2))' = <<PeerEntry(netConfig', 1)>> )
        /\ (netRuns' = netRuns + 1 /\ Range(nd.nodes) = {1, 2} /\ nd'.nodes = <<1>>)
           => SubmittedPeers(1)' = <<ExternalPeer(netConfig')>> ]_vars

\* Node 2 has been removed by an update that left node 1 alone, and node 1's
\* submitted deployment holds one peer entry.
C11_Witness ==
    /\ netRun = [op |-> "update", err |-> ""]
    /\ nd.nodes = <<1>>
    /\ \E k \in DOMAIN netCalls :
          netCalls[k].call = "CancelContract" /\ netCalls[k].node = 2
    /\ Len(SubmittedPeers(1)) = 1

\* C16: a successful run submits exactly one deployment per entry of the node
\* list, in order; the i-th goes to node i and holds exactly one workload, of
\* type network, with the subnet, private key and listen port recorded for
\* node i.
C16_OneDeploymentPerNode ==
    (netRun.op # "none" /\ netRun.err = "")
    => /\ Len(Submitted) = Len(nd.nodes)
       /\ \A i \in DOMAIN nd.nodes :
             LET c == Submitted[i]
                 wls == c.dl[1].Workloads
                 rec == nd.deployment_info[i]
             IN  /\ c.node = nd.nodes[i]
                 /\ rec.node_id = nd.nodes[i]
                 /\ Len(wls) = 1
                 /\ wls[1].Type = "network"
                 /\ IPNetString(wls[1].Data.Subnet) = rec.ip_range
                 /\ wls[1].Data.Subnet = netConfig.IPs[nd.nodes[i]]
                 /\ wls[1].Data.WGPrivateKey = rec.wg_private_key
                 /\ wls[1].Data.WGListenPort = rec.wg_port

\* A run has submitted three deployments to three nodes with ports that
\* are not all the same.
C16_Witness ==
    /\ netRun.err = ""
    /\ Len(nd.nodes) = 3
    /\ Len(Submitted) = 3
    /\ \E i, j \in 1..3 : nd.deployment_info[i].wg_port # nd.deployment_info[j].wg_port

\* C17: in the NetworkConfiguration of every run the subnets of distinct
\* nodes are pairwise different and none is the external access subnet.
C17_DistinctSubnets ==
    netRun.op # "none"
    => \A a \in Range(netConfig.NodeIDs) :
          /\ netConfig.IPs[a] # netConfig.ExternalNodeIP
          /\ \A b \in Range(netConfig.NodeIDs) :
                a # b => netConfig.IPs[a] # netConfig.IPs[b]

\* The calls among `calls` that concern `node`, by name.
CallsOf(calls, node, call) ==
    SelectSeq(calls, LAMBDA c : c.node = node /\ c.call = call)
\* The contract ids recorded for `node` in the resource data.
RecordedContracts(node) ==
    {nd.deployment_info[i].deployment_id :
        i \in {j \in DOMAIN nd.deployment_info : nd.deployment_info[j].node_id = node}}

\* C18: in an update run, a declared node without a recorded contract gets
\* CreateContract and DeploymentDeploy, a declared node with a recorded
\* contract gets UpdateContract on the recorded id and DeploymentUpdate; no
\* node is updated without a contract or created with one.
C18_CreateOrUpdateBySentinel ==
    [][ (netRuns' = netRuns + 1 /\ netRun'.op = "update" /\ netRun'.err = "")
        => \A i \in DOMAIN nd'.nodes :
              LET node == nd'.nodes[i] IN
              IF RecordedContracts(node) = {}
              THEN /\ Len(CallsOf(netCalls', node, "CreateContract")) = 1
                   /\ Len(CallsOf(netCalls', node, "DeploymentDeploy")) = 1
                   /\ CallsOf(netCalls', node, "UpdateContract") = <<>>
                   /\ CallsOf(netCalls', node, "DeploymentUpdate") = <<>>
                   /\ CallsOf(netCalls', node, "CreateContract")[1].contract \notin
                         UNION {RecordedContracts(n) : n \in Range(nd.nodes)}
              ELSE /\ Len(CallsOf(netCalls', node, "UpdateContract")) = 1
                   /\ CallsOf(netCalls', node, "UpdateContract")[1].contract \in RecordedContracts(node)
                   /\ Len(CallsOf(netCalls', node, "DeploymentUpdate")) = 1
                   /\ CallsOf(netCalls', node, "DeploymentUpdate")[1].contract \in RecordedContracts(node)
                   /\ CallsOf(netCalls', node, "CreateContract") = <<>>
                   /\ CallsOf(netCalls', node, "DeploymentDeploy") = <<>> ]_vars

\* An update run has created a contract for one node and updated the
\* contract of another.
C18_Witness ==
    /\ netRun = [op |-> "update", err |-> ""]
    /\ \E k \in DOMAIN netCalls : netCalls[k].call = "CreateContract"
    /\ \E k \in DOMAIN netCalls : netCalls[k].call = "UpdateContract"

\* C20: a network create or update run that reports success has seen every
\* workload it submitted in state ok.
C20_SuccessOnlyWhenAllOk ==
    (netRun.op # "none" /\ netRun.err = "")
    => \A k \in DOMAIN netCalls :
          netCalls[k].got # <<>> => netCalls[k].got = <<StateOk>>

\* ---- the polling loop of waitDeployment (SpecWait) ----
\* A step of the loop that issues DeploymentGet: every one takes time.
IssuesFetch == wpc = "loop" /\ elapsed' > elapsed

\* C30: in waitDeployment a fetch is never issued directly after a fetch:
\* when the last thing the loop did was a DeploymentGet whose scan left it
\* in the loop, its next step is not a DeploymentGet.
C30_DelayBetweenFetches ==
    [][ (wpc = "loop" /\ fetched # <<>>) => ~IssuesFetch ]_vars

\* ---- deployment create and update runs (SpecDeploy) ----
\* The workload of the manifest built for the i-th disk, storage node and
\* machine: the manifest lists the disks, then the storage nodes, then the
\* machines.
DiskWl(i) == manifest.Workloads[i]
ZdbWl(i) == manifest.Workloads[Len(d.disks) + i]
VmWl(i) == manifest.Workloads[Len(d.disks) + Len(d.zdbs) + i]

\* C29: in the manifest of a create or update run every workload's Version
\* is the version the run records in state for its disk, storage node or
\* machine.
C29_WorkloadVersionIsRecorded ==
    (lastRun.op \in {"create", "update"} /\ lastRun.err = "")
    => /\ \A i \in DOMAIN d.disks : DiskWl(i).Version = d.disks[i].version
       /\ \A i \in DOMAIN d.zdbs : ZdbWl(i).Version = d.zdbs[i].version
       /\ \A i \in DOMAIN d.vms : VmWl(i).Version = d.vms[i].version

\* The names of the steps the last run performed, and the ledger writes and
\* node-agent submissions among them.
StepNames == [i \in DOMAIN lastRun.steps |-> lastRun.steps[i].step]
LedgerWrites == {"CreateContract", "UpdateContract"}
Submissions == {"DeploymentDeploy", "DeploymentUpdate"}

\* C25: a create run that ends because validation failed or no free IP
\* remained, and an update run that ends because validation failed or the
\* node changed, has issued no remote call: no ledger write and no
\* submission to the node agent.
C25_FatalBeforeRemoteCalls ==
    /\ ( /\ lastRun.op = "create"
         /\ lastRun.err \in {"Valid", "all ips are used"} )
       => ( /\ lastRun.calls = <<>>
            /\ Range(StepNames) \cap (LedgerWrites \cup Submissions) = {} )
    /\ ( /\ lastRun.op = "update"
         /\ lastRun.err \in {"Valid", "changing node is not supported"} )
       => ( /\ lastRun.calls = <<>>
            /\ Range(StepNames) \cap (LedgerWrites \cup Submissions) = {} )

\* A create run has ended because the address range was exhausted.
C25_Witness ==
    /\ lastRun.op = "create"
    /\ lastRun.err = "all ips are used"
    /\ lastRun.calls = <<>>

\* A machine of the recorded configuration mounts a disk that the
\* configuration does not declare.
UndeclaredMount ==
    \E i \in DOMAIN d.vms : \E m \in DOMAIN d.vms[i].mounts :
        d.vms[i].mounts[m].disk_name \notin {d.disks[k].name : k \in DOMAIN d.disks}

\* C26: a create or update run whose declared machine mounts an undeclared
\* disk fails while the manifest is built: it ends with an error before
\* validation, signing or any remote call.
C26_UndeclaredMountRejected ==
    (lastRun.op \in {"create", "update"} /\ UndeclaredMount)
    => (lastRun.err # "" /\ lastRun.steps = <<>>)

\* C23 (deployment delete): once CancelContract has succeeded, a failure of
\* DeploymentDelete is not escalated: the run ends without error and the
\* resource is removed.
C23_DeleteFailureNotEscalated ==
    ( /\ lastRun.op = "delete"
      /\ \E i \in DOMAIN StepNames : StepNames[i] = "CancelContract"
      /\ lastRun.err # "CancelContract" )
    => (lastRun.err = "" /\ d.id = "")

\* ---- getNodeFreeWGPort (SpecPortFair) ----
\* Every port of the sampled range is in the reserved list.
AllReserved == Range(AllPorts) \subseteq Range(freeports)

\* C27: getNodeFreeWGPort returns only a port p with 2000 <= p < 8000 that
\* is not in the reserved list; once the list is fetched it returns, under
\* fair sampling, when a port of the range is unreserved, and it never
\* returns when all 6000 ports are reserved.
C27_FreePort ==
    /\ [](ppc = "returned"
          => ( /\ PortBase <= port
               /\ port < PortBase + PortSpan
               /\ port \notin Range(freeports) ))
    /\ [](AllReserved => ppc # "returned")
    /\ ((ppc = "loop" /\ ~AllReserved) ~> (ppc = "returned"))

\* The function has returned a port although some sampled ports, and the
\* ports next to the range, are reserved.
C27_Witness ==
    /\ ppc = "returned"
    /\ Len(freeports) >= 3
    /\ \E k \in DOMAIN freeports : freeports[k] \in SamplePorts

\* ---- the runs step by step (SpecNetCalls, SpecRuns) ----
NetSteps == netRun.steps
RanNet == netRun.op # "none"

\* C22: on every delete path DeploymentDelete for a contract is requested
\* only after CancelContract for the same contract was issued and succeeded.
C22_DeleteAfterCancelSucceeded ==
    RanNet =>
       \A k \in DOMAIN NetSteps :
          NetSteps[k].call = "DeploymentDelete"
          => \E j \in 1..(k - 1) :
                /\ NetSteps[j].call = "CancelContract"
                /\ NetSteps[j].contract = NetSteps[k].contract
                /\ NetSteps[j].ok

\* The positions of the steps of a run that issue `call` for `node`.
StepsFor(steps, call, node) ==
    {k \in DOMAIN steps : steps[k].call = call /\ steps[k].node = node}

\* The recorded entries as a run that returned stores them, read off the
\* submissions among its steps: node, contract and version.
StoredFrom(steps) ==
    LET sent == SelectSeq(steps, LAMBDA st : st.call \in Submissions) IN
    [i \in DOMAIN sent |->
        [node_id |-> sent[i].node, deployment_id |-> sent[i].contract,
         version |-> sent[i].dl[1].Version]]
StoredIn(dd) ==
    [i \in DOMAIN dd.deployment_info |->
        [node_id |-> dd.deployment_info[i].node_id,
         deployment_id |-> dd.deployment_info[i].deployment_id,
         version |-> dd.deployment_info[i].version]]

\* C24: in resourceNetworkUpdate every recorded node that is not declared
\* any more gets exactly one CancelContract and one DeploymentDelete, both
\* for its recorded contract (at most one of each in a run that panics on
\* the way), a retained node gets none, all of them come after every
\* submission of the run, and a cancellation that fails leaves the run
\* returning and storing the new state of the declared nodes.
C24_RemovedNodesCancelledLast ==
    [][ (netRun'.op = "update" /\ netRuns' = netRuns + 1) =>
        LET steps == netRun'.steps
            node_ids == netRun'.nodes
            recorded == nd.deployment_info
            removal == {"CancelContract", "DeploymentDelete"}
        IN  /\ \A i \in DOMAIN recorded, call \in removal :
                  LET at == StepsFor(steps, call, recorded[i].node_id) IN
                  IF isInInt(node_ids, recorded[i].node_id)
                  THEN at = {}
                  ELSE /\ Cardinality(at) <= 1
                       /\ netRun'.err = "" => Cardinality(at) = 1
                       /\ \A k \in at : steps[k].contract = recorded[i].deployment_id
            /\ \A k \in DOMAIN steps :
                  steps[k].call \in removal
                  => /\ \E i \in DOMAIN recorded : recorded[i].node_id = steps[k].node
                     /\ \A j \in DOMAIN steps : steps[j].call \in Submissions => j < k
                     /\ \A n \in Range(node_ids) :
                           \E j \in 1..(k - 1) :
                              steps[j].call \in Submissions /\ steps[j].node = n
            /\ (\E k \in DOMAIN steps : steps[k].call = "CancelContract" /\ ~steps[k].ok)
               => /\ netRun'.err = ""
                  /\ nd'.nodes = node_ids
                  /\ StoredIn(nd') = StoredFrom(steps)
      ]_vars

\* An update has returned although the cancellation of a removed node's
\* contract failed, a retained node having been submitted before.
C24_Witness ==
    /\ netRun.op = "update"
    /\ netRun.err = ""
    /\ netRun.nodes # <<>>
    /\ \E k \in DOMAIN NetSteps : NetSteps[k].call = "CancelContract" /\ ~NetSteps[k].ok

\* The steps of the last deployment run.
RunSteps == lastRun.steps

\* C21: every deployment handed to a node agent has before, in this order,
\* been validated with the version it is submitted with, been signed by the
\* owning twin with that version, and got its contract id from a ledger
\* CreateContract/UpdateContract call that succeeded; the contract id of a
\* submitted deployment is never zero.
C21_ValidSignedContractThenSubmit ==
    /\ \A k \in DOMAIN RunSteps :
          RunSteps[k].step \in Submissions
          => /\ RunSteps[k].ContractID # 0
             /\ RunSteps[k].SignedBy = <<UserInfo.TwinID>>
             /\ \E i, j, l \in 1..(k - 1) :
                   /\ i < j /\ j < l
                   /\ RunSteps[i].step = "Valid"
                   /\ RunSteps[i].Version = RunSteps[k].Version
                   /\ RunSteps[j].step = "Sign"
                   /\ RunSteps[j].Version = RunSteps[k].Version
                   /\ RunSteps[j].SignedBy = <<UserInfo.TwinID>>
                   /\ RunSteps[l].step \in LedgerWrites
                   /\ lastRun.err # RunSteps[l].step
    /\ RanNet =>
          \A k \in DOMAIN NetSteps :
             NetSteps[k].call \in Submissions
             => LET dl == NetSteps[k].dl[1]
                    unbound == [dl EXCEPT !.ContractID = 0]
                IN  /\ dl.ContractID # 0
                    /\ dl.ContractID = NetSteps[k].contract
                    /\ \E i, j, l \in 1..(k - 1) :
                          /\ i < j /\ j < l
                          /\ NetSteps[i].call = "Valid"
                          /\ NetSteps[i].dl[1] = [unbound EXCEPT !.SignedBy = <<>>]
                          /\ NetSteps[j].call = "Sign"
                          /\ NetSteps[j].dl[1] = unbound
                          /\ unbound.SignedBy = <<UserInfo.TwinID>>
                          /\ NetSteps[l].call \in LedgerWrites
                          /\ NetSteps[l].ok
                          /\ NetSteps[l].node = NetSteps[k].node
                          /\ NetSteps[l].contract = dl.ContractID

\* A network update has handed a deployment of a later version to an agent.
C21_Witness ==
    /\ netRun.op = "update"
    /\ \E k \in DOMAIN NetSteps :
          /\ NetSteps[k].call = "DeploymentUpdate"
          /\ NetSteps[k].dl[1].Version >= 1

\* C28: when a submission to the node agent or the completion polling fails
\* after the ledger gave the contract, the run ends at the failing step with
\* that error: no CancelContract is issued, the step is not tried again and
\* no step follows it.
C28_NoRollbackAfterSubmitFailure ==
    /\ (lastRun.op \in {"create", "update"}
        /\ lastRun.err \in Submissions \cup {"waitDeployment"})
       => /\ RunSteps[Len(RunSteps)].step = lastRun.err
          /\ Cardinality({k \in DOMAIN RunSteps : RunSteps[k].step = lastRun.err}) = 1
          /\ \E l \in DOMAIN RunSteps : RunSteps[l].step \in LedgerWrites
          /\ "CancelContract" \notin Range(lastRun.calls)
          /\ \A k \in DOMAIN RunSteps : RunSteps[k].step # "CancelContract"
    /\ (RanNet /\ netRun.err \in Submissions)
       => LET last == NetSteps[Len(NetSteps)] IN
          /\ last.call = netRun.err
          /\ ~last.ok
          /\ Cardinality(StepsFor(NetSteps, last.call, last.node)) = 1
          /\ \E l \in DOMAIN NetSteps :
                /\ NetSteps[l].call \in LedgerWrites
                /\ NetSteps[l].node = last.node
                /\ NetSteps[l].ok
          /\ \A k \in DOMAIN NetSteps : NetSteps[k].call # "CancelContract"
          /\ netCalls[Len(netCalls)].call = netRun.err

\* A network create has panicked at the submission for the first of two
\* declared nodes.
C28_Witness ==
    /\ netRun.op = "create"
    /\ netRun.err = "DeploymentDeploy"
    /\ Len(netRun.nodes) = 2
    /\ NetSteps[Len(NetSteps)].node = netRun.nodes[1]

\* ---- what a deployment run records (SpecDeploy) ----
\* Every step of S was reached by the last run and none of them failed.
AllSucceeded(S) == S \subseteq Range(StepNames) /\ lastRun.err \notin S

\* What create records with the id: the contract id the ledger gave and the
\* addresses of the machines as the used-IP list; nothing when the id is unset.
CreateRecorded ==
    IF d.id # ""
    THEN /\ manifest.ContractID # 0
         /\ d.id = FormatUint(manifest.ContractID)
         /\ d.used_ips = [i \in DOMAIN d.vms |-> d.vms[i].ip]
    ELSE d.used_ips = <<>>

DeleteCleared ==
    lastRun.op = "delete"
    => (d.id = "" <=> AllSucceeded({"CancelContract", "DeploymentDelete"}))

\* C34 as stated: resourceDeploymentCreate records the id and the used-IP
\* list if and only if contract creation, manifest submission and completion
\* polling all succeeded, and resourceDeploymentDelete clears the id only
\* after both the cancellation and the remote delete succeeded.
C34_IdIffContractSubmitPolling ==
    /\ lastRun.op = "create"
       => /\ d.id # "" <=> AllSucceeded({"CreateContract", "DeploymentDeploy",
                                        "waitDeployment"})
          /\ CreateRecorded
    /\ DeleteCleared

\* C34, amended: the id and the used-IP list are recorded if and only if
\* contract creation, manifest submission, completion polling and the final
\* DeploymentGet all succeeded; on any failure the id stays unset, also when
\* the ledger contract exists; delete clears the id only after both the
\* cancellation and the remote delete succeeded.
C34_IdIffEveryCallSucceeded ==
    /\ lastRun.op = "create"
       => /\ d.id # "" <=> AllSucceeded({"CreateContract", "DeploymentDeploy",
                                        "waitDeployment", "DeploymentGet"})
          /\ lastRun.err # "" => d.id = ""
          /\ CreateRecorded
    /\ DeleteCleared

\* A create run has failed at the polling with the ledger contract created:
\* the id is unset.
C34_Witness ==
    /\ lastRun.op = "create"
    /\ lastRun.err = "waitDeployment"
    /\ manifest.ContractID # 0
    /\ d.id = ""

\* ---- what resourceNetworkUpdate keeps and stores (SpecNet) ----
\* The step is an update run that has returned.
UpdateReturns == netRun'.op = "update" /\ netRun'.err = "" /\ netRuns' = netRuns + 1

\* The positions at which the recorded state dd holds the node.
RecordedAt(dd, node) ==
    {j \in DOMAIN dd.deployment_info : dd.deployment_info[j].node_id = node}

\* C32: resourceNetworkUpdate leaves the allocation of a declared node that
\* has a recorded listen port as it is recorded (subnet, listen port, key
\* pair); a declared node without a recorded port gets a subnet no recorded
\* node and not the external node holds, a port, and a key drawn in this run.
C32_UpdateKeepsAllocations ==
    [][ UpdateReturns =>
        \A i \in DOMAIN nd'.deployment_info :
           LET new == nd'.deployment_info[i]
               olds == RecordedAt(nd, new.node_id)
           IN  /\ new.node_id = nd'.nodes[i]
               /\ IF olds # {}
                  THEN \A j \in olds :
                          LET old == nd.deployment_info[j] IN
                          /\ new.ip_range = old.ip_range
                          /\ new.wg_port = old.wg_port
                          /\ new.wg_private_key = old.wg_private_key
                          /\ new.wg_public_key = old.wg_public_key
                          /\ netConfig'.WGPort[new.node_id] = old.wg_port
                          /\ IPNetString(netConfig'.IPs[new.node_id]) = old.ip_range
                          /\ KeyString(netConfig'.Keys[new.node_id]) = old.wg_private_key
                  ELSE /\ \A j \in DOMAIN nd.deployment_info :
                             new.ip_range # nd.deployment_info[j].ip_range
                       /\ new.ip_range # nd.external_ip
                       /\ new.wg_port \in PortChoices
                       /\ \E k \in (netKeys + 1)..netKeys' :
                             new.wg_private_key = KeyTexts[k]
      ]_vars

\* An update has returned with a retained node (version 1 or more) that
\* holds a port other than the first of the range, and an added node.
C32_Witness ==
    /\ netRun.op = "update"
    /\ netRun.err = ""
    /\ \E i, j \in DOMAIN nd.deployment_info :
          /\ nd.deployment_info[i].version >= 1
          /\ nd.deployment_info[i].wg_port # 2000
          /\ nd.deployment_info[j].version = 0

\* C33: after resourceNetworkUpdate has returned the stored records are one
\* per declared node, in declaration order, each with the contract id the
\* ledger call of this run for the node returned and the version submitted
\* in this run: 0 for an added node, the recorded version plus 1 for a
\* retained one; no record of a removed node is left.
C33_StoredRecordsAreTheDeclaredNodes ==
    [][ UpdateReturns =>
        /\ Len(nd'.deployment_info) = Len(nd'.nodes)
        /\ \A i \in DOMAIN nd'.deployment_info :
              LET new == nd'.deployment_info[i]
                  node == nd'.nodes[i]
                  olds == RecordedAt(nd, node)
              IN  /\ new.node_id = node
                  /\ \E k \in DOMAIN netCalls' :
                        /\ netCalls'[k].call \in LedgerWrites
                        /\ netCalls'[k].node = node
                        /\ netCalls'[k].contract = new.deployment_id
                  /\ \E k \in DOMAIN netCalls' :
                        /\ netCalls'[k].call \in Submissions
                        /\ netCalls'[k].node = node
                        /\ netCalls'[k].dl[1].Version = new.version
                        /\ netCalls'[k].dl[1].ContractID = new.deployment_id
                  /\ IF olds = {} THEN new.version = 0
                     ELSE \A j \in olds : new.version = nd.deployment_info[j].version + 1
        /\ \A j \in DOMAIN nd.deployment_info :
              ~isInInt(nd'.nodes, nd.deployment_info[j].node_id)
              => RecordedAt(nd', nd.deployment_info[j].node_id) = {}
      ]_vars

\* An update has returned that removed a node, retained one and added one.
C33_Witness ==
    /\ netRun.op = "update"
    /\ netRun.err = ""
    /\ Len(nd.deployment_info) = 2
    /\ nd.deployment_info[1].version >= 1
    /\ nd.deployment_info[2].version = 0
    /\ \E k \in DOMAIN netCalls : netCalls[k].call = "CancelContract"

\* ---- runs that allocate a port on the same node (SpecRace) ----
\* The run holds a port: getNodeFreeWGPort has returned to it.
Holds(r) == runPc[r] \in {"chosen", "deployed"}

\* C31: the port a run holds is checked against nothing but the list the run
\* itself read: it is a port of the range that is not in that list, and a
\* second run is kept off it only when the second run read the list after
\* the node reserved it.  Two runs that both read before either deployment
\* reached the node can hold the same port (C31_Witness).
C31_OnlyTheOwnListGuards ==
    \A r \in Racers :
       Holds(r) =>
          /\ PortBase <= runPort[r] /\ runPort[r] < PortBase + PortSpan
          /\ runPort[r] \notin Range(runFreeports[r])
          /\ \A q \in Racers \ {r} :
                (Holds(q) /\ runPort[q] \in Range(runFreeports[r]))
                => runPort[r] # runPort[q]
          /\ \A q \in Racers \ {r} :
                (Holds(q) /\ runPort[q] = runPort[r])
                => /\ runPort[r] \notin Range(runFreeports[q])
                   /\ runPc[r] = "deployed" => runPort[r] \in nodePorts

\* Two runs hold the same port for the node, and both have handed the node
\* their deployment.
C31_Witness ==
    \E r, q \in Racers :
       /\ r # q
       /\ runPc[r] = "deployed"
       /\ runPc[q] = "deployed"
       /\ runPort[r] = runPort[q]

====
